---------------------------- MODULE Spec2Model ----------------------------
(***************************************************************************)
(* Verification model of the adaptive learner-modelling platform           *)
(* (wiaanjvr/fluency_next, src/ml).                                        *)
(*                                                                         *)
(*   SpecCL      the cognitive-load service: the four route handlers of    *)
(*               cognitive_load/api/routes.py over the process-wide        *)
(*               CognitiveLoadEstimator, the relational store it reads and *)
(*               writes, and a process restart.  The handlers are          *)
(*               `async def` bodies without an await that yields, so each  *)
(*               handler runs to completion on the event loop: one action  *)
(*               per handler.                                              *)
(*   SpecRecover restart recovery (_reconstruct_from_db) over event logs   *)
(*               found in the store, while baselines and word statuses     *)
(*               change.                                                   *)
(*   SpecThreads the CognitiveLoadEstimator object called from several     *)
(*               threads, every method taking self._lock.                  *)
(*   SpecWindow  one session fed a long event stream (deque(maxlen=500)).  *)
(*   SpecRouter  the RL router's next_activity while sessions are opened.  *)
(*   SpecReward  the RL router's observe_reward over stored decisions and  *)
(*               the session rows they are joined with.                    *)
(*   SpecBandit  observe_reward's online update of the LinUCB model.       *)
(*   SpecColdStart, SpecRewardPair                                         *)
(*               cold_start_recommend and compute_reward as functions of   *)
(*               their inputs.                                             *)
(*   SpecLoop    predict, update and _train_bandit statement by statement  *)
(*               on the router's event loop.                               *)
(*   SpecArtifact the LinUCB model file under save, load and restarts.     *)
(*   SpecPpo     PPOAgent.load and the router's use of the agent.          *)
(*   SpecRetrain the Celery training tasks and the prediction cache.       *)
(*   SpecTask    one Celery training task under _run_with_retry: attempts, *)
(*               retries and what train_router_model publishes.            *)
(*   SpecCache   the PredictionCache object, its Redis backend coming and  *)
(*               going, and the routes that call it.                       *)
(*   SpecCacheLive                                                         *)
(*               the same with requests that keep arriving.                *)
(*   SpecErase   DELETE /ml/user/{user_id} over the cache and the tables.  *)
(*                                                                         *)
(* Loads are fixed-point numbers in units of 1/10000 (the service rounds   *)
(* every reported load to 4 decimals); rewards are in units of 1/2.        *)
(***************************************************************************)
EXTENDS Integers, Sequences, FiniteSets, TLC

VARIABLES
    \* ---- CognitiveLoadEstimator (engine/__init__.py) ----
    sessions,       \* estimator._sessions: session_id -> SessionState (a dict)
    lock,           \* estimator._lock: the worker holding it, or NoWorker
    pc,             \* per worker: position inside an estimator method
    local,          \* per worker: the method's local variables
    \* ---- the relational store, cognitive-load tables ----
    summaryTbl,     \* session_summaries: session_id -> row
    eventTbl,       \* interaction_events per session, in insertion order
    baselineTbl,    \* user_baselines + the two baseline RPCs, per user
    wordStatusTbl,  \* user_words.status per word id
    predLog,        \* ml_prediction_log rows written by session-end
    \* ---- history of the cognitive-load service ----
    life,           \* per session: "new", "active" (init_session called),
                    \* "ended" (ended since), "lost" (restart while active)
    lastEnd,        \* what the end_session request of the latest step did
    lastRecord,     \* what the record_event request of the latest step did
    recoveries,     \* every restart recovery: its inputs and its snapshot
    acceptedLog,    \* per session: events accepted since its last init
    \* ---- RL router (rl_router) ----
    decisions,      \* routing_decisions rows, in insertion order
    rewards,        \* routing_rewards rows, in insertion order
    rlSessions,     \* session_summaries rows the router reads
    now,            \* the store's clock (created_at / started_at)
    bandit,         \* LinUCBModel: per arm A, b, A_inv; total_updates, arm_pulls
    lastResponse,   \* the latest next_activity / observe_reward response
    \* ---- the router process, its files and the shared cache ----
    loopTask,       \* the handler running on the event loop, or None
    task,           \* per request: position inside its handler and locals
    artifact,       \* the file at settings.paths.bandit_model_path
    ppo_agent,      \* PPOAgent: the network's dimensions and _is_loaded
    cache,          \* the keys of the Redis prediction cache
    \* ---- the shared cache object, its backend, the erasable tables ----
    prediction_cache, \* PredictionCache: _client and _enabled
    backend_up,     \* whether the Redis server answers
    predictor,      \* DKTPredictor: whether _model is set
    tables          \* rows of the per-user tables: [table, user_id]

estVars == <<sessions, lock, pc, local>>
clStore == <<summaryTbl, eventTbl, baselineTbl, wordStatusTbl, predLog>>
clHist  == <<life, lastEnd, lastRecord, recoveries, acceptedLog>>
platVars == <<prediction_cache, backend_up, predictor, tables>>
opsVars == <<loopTask, task, artifact, ppo_agent, cache, platVars>>
rlVars  == <<decisions, rewards, rlSessions, now, bandit, lastResponse,
             opsVars>>
vars    == <<estVars, clStore, clHist, rlVars>>

-----------------------------------------------------------------------------
(* Values shared by all parts                                              *)

None     == "None"          \* Python None where the other values are strings
NullRt   == -1              \* a null response_time_ms
NoneLoad == -1              \* a null load in a response
NoWorker == "nobody"

Scale == 10000              \* fixed-point unit of a load: 1.0 = Scale

Min(a, b) == IF a < b THEN a ELSE b
Max(a, b) == IF a > b THEN a ELSE b

RECURSIVE SumSeq(_)
SumSeq(q) == IF q = <<>> THEN 0 ELSE Head(q) + SumSeq(Tail(q))

\* n / d rounded to the nearest integer (d > 0, n >= 0): round(x, 4) on a
\* value held in units of 1/10000
RoundDiv(n, d) == (2 * n + d) \div (2 * d)

\* the dict m without key k
Drop(m, k) == [x \in DOMAIN m \ {k} |-> m[x]]

\* the dict m with m[k] = v (added or replaced)
Put(m, k, v) == [x \in DOMAIN m \cup {k} |-> IF x = k THEN v ELSE m[x]]

-----------------------------------------------------------------------------
(* Cognitive-load configuration (cognitive_load/config.py)                 *)

simplify_threshold          == 6000     \* 0.6
break_threshold             == 8000     \* 0.8
consecutive_high_load_words == 3
trend_window_size           == 8
trend_increase_delta        == 500      \* 0.05
trend_decrease_delta        == -500     \* -0.05
default_baseline_ms         == 3000
WindowMaxLen                == 500      \* deque(maxlen=500)

(* Bounds and input sets of the cognitive-load model                       *)

MaxEvents    == 2       \* live events accepted per session between inits
MaxPersisted == 2       \* interaction_events rows per session
MaxRecover   == 2       \* recoveries remembered in the history
MaxStream    == 503     \* events fed to the session of SpecWindow

SessionIds == {"s1"}
UserIds    == {"u1"}
Modules    == {"story_engine", "grammar"}
Statuses   == {"new", "known"}
WordIds    == {"w1"}
RtInputs   == {NullRt, 0, 3000, 5000}
SeqNumbers == 0 .. 2
Workers    == {"t1", "t2"}

\* The baselines one user can have in the store.  user is <<>> (no
\* user_baselines row) or <<ms>>; module and bucket are the dicts the two
\* RPCs return.
BaselineConfigs ==
    { [user |-> <<>>,       module |-> <<>>, bucket |-> <<>>],
      [user |-> <<2000>>,   module |-> <<>>, bucket |-> <<>>],
      [user |-> <<>>,       module |-> ("story_engine" :> 2500), bucket |-> <<>>],
      [user |-> <<2000>>,   module |-> ("story_engine" :> 2500),
       bucket |-> ("story_engine" :> ("new" :> 4000))],
      [user |-> <<>>,       module |-> <<>>,
       bucket |-> ("story_engine" :> ("new" :> 4000))] }

-----------------------------------------------------------------------------
(* CognitiveLoadEstimator: pure parts                                      *)

\* SessionState(...) as init_session constructs it
SessionState(u, mod, ubl, mbls, bbls) ==
    [ user_id               |-> u,
      module_source         |-> mod,
      events                |-> <<>>,
      user_baseline_ms      |-> ubl,
      module_baselines      |-> mbls,
      bucket_baselines      |-> bbls,
      consecutive_high_load |-> 0 ]

\* _resolve_baseline with the most specific level last in the source order
resolve_baseline_module_first(st, word_status) ==
    LET mod == st.module_source IN
    IF mod \in DOMAIN st.module_baselines /\ st.module_baselines[mod] > 0
    THEN st.module_baselines[mod]
    ELSE IF /\ word_status # None
            /\ mod \in DOMAIN st.bucket_baselines
            /\ word_status \in DOMAIN st.bucket_baselines[mod]
            /\ st.bucket_baselines[mod][word_status] > 0
         THEN st.bucket_baselines[mod][word_status]
         ELSE st.user_baseline_ms

\* _resolve_baseline: bucket, then module, then the session's user baseline
resolve_baseline(st, word_status) ==
    LET mod == st.module_source IN
    IF /\ word_status # None
       /\ mod \in DOMAIN st.bucket_baselines
       /\ word_status \in DOMAIN st.bucket_baselines[mod]
       /\ st.bucket_baselines[mod][word_status] > 0
    THEN st.bucket_baselines[mod][word_status]
    ELSE IF mod \in DOMAIN st.module_baselines /\ st.module_baselines[mod] > 0
         THEN st.module_baselines[mod]
         ELSE st.user_baseline_ms

\* raw_load = (rt - baseline) / baseline if baseline > 0 else 0, clipped to
\* [0, 1]
cog_load(rt, baseline) ==
    IF baseline > 0
    THEN Max(0, Min(Scale, ((rt - baseline) * Scale) \div baseline))
    ELSE 0

\* EventLoad (timestamp = time.time() is never read and is left out)
EventLoad(seq, word_id, rt, baseline) ==
    [ sequence         |-> seq,
      word_id          |-> word_id,
      response_time_ms |-> rt,
      baseline_ms      |-> baseline,
      cognitive_load   |-> cog_load(rt, baseline) ]

\* deque.append on a deque that never evicts
deque_append_unbounded(q, e) == Append(q, e)

\* deque(maxlen=500).append: the oldest entry leaves when the deque is full
deque_append(q, e) ==
    IF Len(q) >= WindowMaxLen THEN Append(Tail(q), e) ELSE Append(q, e)

\* the consecutive-high-load update of record_event
next_consecutive(c, load) ==
    IF load > simplify_threshold THEN c + 1 ELSE 0

Loads(events) == [i \in 1 .. Len(events) |-> events[i].cognitive_load]

\* the last n entries of q (q[-n:])
LastN(q, n) == SubSeq(q, Max(1, Len(q) - n + 1), Len(q))

\* 2 * sum((x - x_mean) * (y - y_mean)) for x = 0 .. n-1
SlopeNum2(w) ==
    LET n == Len(w) IN
    2 * SumSeq([i \in 1 .. n |-> (i - 1) * w[i]]) - (n - 1) * SumSeq(w)

\* _compute_trend: slope = num / denom with denom = n(n^2 - 1)/12, so
\* slope > delta  <=>  6 * SlopeNum2 > delta * n(n^2 - 1)
compute_trend(w) ==
    LET n == Len(w)
        d == n * (n * n - 1)
    IN  IF n < 3 THEN "stable"
        ELSE IF 6 * SlopeNum2(w) > trend_increase_delta * d THEN "increasing"
        ELSE IF 6 * SlopeNum2(w) < trend_decrease_delta * d THEN "decreasing"
        ELSE "stable"

\* _recommend_action, on the unrounded average (sum / n > threshold)
recommend_action(current_load, sum, n, consecutive_high) ==
    IF current_load > break_threshold THEN "end-session"
    ELSE IF /\ current_load > simplify_threshold
            /\ consecutive_high >= consecutive_high_load_words
         THEN "simplify"
    ELSE IF sum > simplify_threshold * n THEN "simplify"
    ELSE "continue"

EmptySnapshot ==
    [ currentLoad |-> 0, trend |-> "stable", recommendedAction |-> "continue",
      eventCount |-> 0, consecutiveHighLoad |-> 0, avgLoad |-> 0,
      recentLoads |-> <<>> ]

\* get_session_load on a tracked session's state
snapshot_of(st) ==
    IF st.events = <<>> THEN EmptySnapshot
    ELSE LET loads  == Loads(st.events)
             window == LastN(loads, trend_window_size)
         IN  [ currentLoad         |-> loads[Len(loads)],
               trend               |-> compute_trend(window),
               recommendedAction   |->
                   recommend_action(loads[Len(loads)], SumSeq(loads),
                                    Len(loads), st.consecutive_high_load),
               eventCount          |-> Len(st.events),
               consecutiveHighLoad |-> st.consecutive_high_load,
               avgLoad             |-> RoundDiv(SumSeq(loads), Len(loads)),
               recentLoads         |-> window ]

-----------------------------------------------------------------------------
(* CognitiveLoadEstimator: the four methods as functions of the dict       *)

\* init_session: last init wins
init_session(m, s, u, mod, ubl, mbls, bbls) ==
    Put(m, s, SessionState(u, mod, ubl, mbls, bbls))

\* does record_event accept the call?
record_accepts(m, s, rt) == rt # NullRt /\ rt > 0 /\ s \in DOMAIN m

\* the state of a tracked session after one accepted record_event
record_on_state(st, word_id, word_status, rt, seq) ==
    LET b == resolve_baseline(st, word_status)
        e == EventLoad(seq, word_id, rt, b)
    IN  [st EXCEPT !.events = deque_append(@, e),
                   !.consecutive_high_load =
                       next_consecutive(@, e.cognitive_load)]

\* record_event: the dict after the call
record_event(m, s, word_id, word_status, rt, seq) ==
    IF record_accepts(m, s, rt)
    THEN [m EXCEPT ![s] = record_on_state(@, word_id, word_status, rt, seq)]
    ELSE m

\* record_event: the returned load
record_result(m, s, word_status, rt) ==
    IF record_accepts(m, s, rt)
    THEN cog_load(rt, resolve_baseline(m[s], word_status))
    ELSE NoneLoad

\* get_session_load: <<>> for None, else <<snapshot>>
get_session_load(m, s) ==
    IF s \in DOMAIN m THEN <<snapshot_of(m[s])>> ELSE <<>>

\* end_session: the returned average (rounded to 4 decimals)
end_result(m, s) ==
    IF s \notin DOMAIN m THEN NoneLoad
    ELSE IF m[s].events = <<>> THEN 0
    ELSE RoundDiv(SumSeq(Loads(m[s].events)), Len(m[s].events))

\* end_session: the dict after the pop
end_session(m, s) == Drop(m, s)

-----------------------------------------------------------------------------
(* The store as the cognitive-load service reads it                        *)
(* (cognitive_load/data/supabase_client.py)                                *)

\* get_user_baseline(...)["avg_response_time_ms"]: the row, else the default
get_user_baseline(u) ==
    IF baselineTbl[u].user # <<>> THEN baselineTbl[u].user[1]
    ELSE default_baseline_ms

get_module_baselines(u) == baselineTbl[u].module

get_difficulty_bucket_baselines(u) == baselineTbl[u].bucket

RECURSIVE InsertBySeq(_, _)
InsertBySeq(q, e) ==
    IF q = <<>> THEN <<e>>
    ELSE IF e.session_sequence_number < Head(q).session_sequence_number
         THEN <<e>> \o q
         ELSE <<Head(q)>> \o InsertBySeq(Tail(q), e)

RECURSIVE SortBySeq(_)
SortBySeq(q) ==
    IF q = <<>> THEN <<>>
    ELSE InsertBySeq(SortBySeq(SubSeq(q, 1, Len(q) - 1)), q[Len(q)])

\* get_session_events without the ORDER BY: rows in insertion order
get_session_events_unordered(s) == eventTbl[s]

\* get_session_events: .order("session_sequence_number", desc=False)
get_session_events(s) == SortBySeq(eventTbl[s])

\* get_word_statuses restricted to one word: statuses.get(word_id)
word_status_of(word_id) ==
    IF word_id # None /\ word_id \in DOMAIN wordStatusTbl
    THEN wordStatusTbl[word_id] ELSE None

\* the replay loop of _reconstruct_from_db over events[i..]
RECURSIVE Replay(_, _, _, _)
Replay(m, s, events, i) ==
    IF i > Len(events) THEN m
    ELSE Replay(record_event(m, s, events[i].word_id,
                             word_status_of(events[i].word_id),
                             events[i].response_time_ms,
                             events[i].session_sequence_number),
                s, events, i + 1)

\* _reconstruct_from_db, the dict it leaves behind
reconstruct_sessions(m, s) ==
    IF s \notin DOMAIN summaryTbl \/ get_session_events(s) = <<>> THEN m
    ELSE LET u == summaryTbl[s].user_id IN
         Replay(init_session(m, s, u, summaryTbl[s].module_source,
                             get_user_baseline(u), get_module_baselines(u),
                             get_difficulty_bucket_baselines(u)),
                s, get_session_events(s), 1)

\* _reconstruct_from_db, the snapshot it returns (<<>> for None)
reconstruct_result(m, s) ==
    IF s \notin DOMAIN summaryTbl THEN <<>>
    ELSE IF get_session_events(s) = <<>> THEN <<EmptySnapshot>>
    ELSE get_session_load(reconstruct_sessions(m, s), s)

-----------------------------------------------------------------------------
(* The cognitive-load service: one action per route handler                *)

NoLocal == [op |-> None]

NoEnd == [ session |-> None, before |-> "new", tracked |-> FALSE,
           result |-> NoneLoad, loads |-> <<>>,
           memChanged |-> FALSE, summaryWritten |-> FALSE,
           logWritten |-> FALSE ]

NoRecord == [ session |-> None, word_status |-> None, rt |-> NullRt,
              accepted |-> FALSE, baseline |-> 0, result |-> NoneLoad ]

\* a step that is neither an end_session nor a record_event request
ResetLast == lastEnd' = NoEnd /\ lastRecord' = NoRecord

\* the arms of the bandit: settings.router.actions
Arms ==
    { "story_engine", "anki_drill", "cloze_practice", "conjugation_drill",
      "pronunciation_session", "grammar_lesson", "rest" }

\* the attributes of a LinUCBModel that a retrain replaces
ModelFields == {"A", "b", "A_inv", "total_updates", "arm_pulls"}

\* LinUCBModel.__init__: identity matrices and zero vectors, written here as
\* the number of updates each per-arm parameter has absorbed
LinUCBModel ==
    [ A             |-> [a \in Arms |-> 0],
      b             |-> [a \in Arms |-> 0],
      A_inv         |-> [a \in Arms |-> 0],
      total_updates |-> 0,
      arm_pulls     |-> [a \in Arms |-> 0],
      \* history: the retrain each field was installed by, and the number
      \* of update calls that went into the parameters
      gen           |-> [f \in ModelFields |-> 0],
      calls         |-> 0 ]

\* LinUCBModel.update(action, x, reward) on model m
bandit_update(m, action) ==
    [m EXCEPT !.A[action] = @ + 1,
              !.b[action] = @ + 1,
              !.A_inv[action] = @ + 1,
              !.total_updates = @ + 1,
              !.arm_pulls[action] = @ + 1,
              !.calls = @ + 1]

\* requests in flight in the router process
Requests == {"r1", "r2"}

\* a request whose handler is not running
IdleTask == [op |-> None]

\* no file at settings.paths.bandit_model_path
NoArtifact == [kind |-> "missing"]

\* the dimensions of the router's state vector and action space
feature_dim == 24
NUM_ACTIONS == 7

\* PPOAgent.__init__: a network of the router's dimensions, not loaded;
\* state_dim and n_actions are the input and output sizes of self.network
PPOAgent ==
    [ state_dim |-> feature_dim, n_actions |-> NUM_ACTIONS,
      is_loaded |-> FALSE ]

\* the router's tables and model before any request
\* PredictionCache.__init__
PredictionCache == [_client |-> None, _enabled |-> TRUE]

\* DKTPredictor.__init__
DKTPredictor == [_model |-> None]

InitRLIdle ==
    /\ decisions = <<>>
    /\ rewards = <<>>
    /\ rlSessions = <<>>
    /\ now = 1
    /\ bandit = LinUCBModel
    /\ lastResponse = [kind |-> None]
    /\ loopTask = None
    /\ task = [r \in Requests |-> IdleTask]
    /\ artifact = NoArtifact
    /\ ppo_agent = PPOAgent
    /\ cache = {}
    /\ prediction_cache = PredictionCache
    /\ backend_up = TRUE
    /\ predictor = DKTPredictor
    /\ tables = {}

InitCL ==
    /\ sessions = <<>>
    /\ lock = NoWorker
    /\ pc = [w \in Workers |-> "idle"]
    /\ local = [w \in Workers |-> NoLocal]
    /\ summaryTbl = <<>>
    /\ eventTbl = [s \in SessionIds |-> <<>>]
    /\ baselineTbl \in [UserIds -> BaselineConfigs]
    /\ wordStatusTbl = <<>>
    /\ predLog = {}
    /\ life = [s \in SessionIds |-> "new"]
    /\ lastEnd = NoEnd
    /\ lastRecord = NoRecord
    /\ recoveries = {}
    /\ acceptedLog = [s \in SessionIds |-> <<>>]
    /\ InitRLIdle

\* POST /session/init
route_init_session(s, u, mod) ==
    /\ sessions' = init_session(sessions, s, u, mod, get_user_baseline(u),
                                get_module_baselines(u),
                                get_difficulty_bucket_baselines(u))
    /\ life' = [life EXCEPT ![s] = "active"]
    /\ acceptedLog' = [acceptedLog EXCEPT ![s] = <<>>]
    /\ ResetLast
    /\ UNCHANGED <<lock, pc, local, clStore, recoveries, rlVars>>

\* POST /session/event
route_record_event(s, word_id, word_status, rt, seq) ==
    /\ record_accepts(sessions, s, rt) => Len(acceptedLog[s]) < MaxEvents
    /\ sessions' = record_event(sessions, s, word_id, word_status, rt, seq)
    /\ acceptedLog' =
           IF record_accepts(sessions, s, rt)
           THEN [acceptedLog EXCEPT ![s] =
                    Append(@, EventLoad(seq, word_id, rt,
                                        resolve_baseline(sessions[s],
                                                         word_status)))]
           ELSE acceptedLog
    /\ lastEnd' = NoEnd
    /\ lastRecord' =
           [ session     |-> s,
             word_status |-> word_status,
             rt          |-> rt,
             accepted    |-> record_accepts(sessions, s, rt),
             baseline    |-> IF s \in DOMAIN sessions
                             THEN resolve_baseline(sessions[s], word_status)
                             ELSE 0,
             result      |-> record_result(sessions, s, word_status, rt) ]
    /\ UNCHANGED <<lock, pc, local, clStore, life, recoveries, rlVars>>

\* what one restart recovery read and what it produced
Recovery(s) ==
    [ session  |-> s,
      log      |-> {eventTbl[s][i] : i \in 1 .. Len(eventTbl[s])},
      user_id  |-> summaryTbl[s].user_id,
      module   |-> summaryTbl[s].module_source,
      baseline |-> baselineTbl[summaryTbl[s].user_id],
      statuses |-> wordStatusTbl,
      window   |-> IF s \in DOMAIN reconstruct_sessions(sessions, s)
                   THEN reconstruct_sessions(sessions, s)[s].events
                   ELSE <<>>,
      snapshot |-> reconstruct_result(sessions, s) ]

\* GET /session/{id}: the tracked session, else _reconstruct_from_db
route_get_session_load(s) ==
    /\ ResetLast
    /\ IF get_session_load(sessions, s) # <<>> \/ s \notin DOMAIN summaryTbl
       THEN UNCHANGED <<estVars, clStore, life, recoveries, acceptedLog,
                        rlVars>>
       ELSE /\ Recovery(s) \in recoveries
               \/ Cardinality(recoveries) < MaxRecover
            /\ sessions' = reconstruct_sessions(sessions, s)
            /\ recoveries' = recoveries \cup {Recovery(s)}
            /\ acceptedLog' =
                   [acceptedLog EXCEPT ![s] =
                       IF s \in DOMAIN sessions' THEN sessions'[s].events
                       ELSE @]
            /\ UNCHANGED <<lock, pc, local, clStore, life, rlVars>>

\* update_session_cognitive_load: UPDATE ... WHERE session_id = s
update_session_cognitive_load(tbl, s, load) ==
    IF s \in DOMAIN tbl
    THEN [tbl EXCEPT ![s].estimated_cognitive_load = load]
    ELSE tbl

\* POST /session/end; stored tells whether the UPDATE went through, logged
\* whether the background writer inserted the ml_prediction_log row
route_end_session(s, stored, logged) ==
    LET final == end_result(sessions, s)
        user  == IF s \in DOMAIN sessions THEN sessions[s].user_id
                 ELSE "unknown"
    IN  /\ sessions' = end_session(sessions, s)
        /\ summaryTbl' =
               IF final # NoneLoad /\ stored
               THEN update_session_cognitive_load(summaryTbl, s, final)
               ELSE summaryTbl
        /\ predLog' = IF logged
                       THEN predLog \cup {[user_id |-> user, session_id |-> s]}
                       ELSE predLog
        /\ life' = [life EXCEPT ![s] =
                       IF @ = "active" \/ s \in DOMAIN sessions THEN "ended"
                       ELSE @]
        /\ acceptedLog' = [acceptedLog EXCEPT ![s] = <<>>]
        /\ lastEnd' =
               [ session      |-> s,
                 before       |-> life[s],
                 tracked      |-> s \in DOMAIN sessions,
                 result       |-> final,
                 loads        |-> IF s \in DOMAIN sessions
                                  THEN Loads(sessions[s].events) ELSE <<>>,
                 memChanged   |-> sessions' # sessions,
                 summaryWritten |-> final # NoneLoad /\ stored
                                    /\ s \in DOMAIN summaryTbl,
                 logWritten   |-> logged ]
        /\ lastRecord' = NoRecord
        /\ UNCHANGED <<lock, pc, local, eventTbl, baselineTbl, wordStatusTbl,
                       recoveries, rlVars>>

(* The service's surroundings                                              *)

\* the client creates the session_summaries row of a session
CreateSummary(s, u, mod) ==
    /\ s \notin DOMAIN summaryTbl
    /\ summaryTbl' = Put(summaryTbl, s,
           [user_id |-> u, module_source |-> mod,
            estimated_cognitive_load |-> NoneLoad])
    /\ ResetLast
    /\ UNCHANGED <<estVars, eventTbl, baselineTbl, wordStatusTbl, predLog,
                   life, recoveries, acceptedLog, rlVars>>

\* the client persists one interaction event (sequence numbers are unique
\* within a session, rows arrive in any order)
PersistEvent(s, word_id, rt, seq) ==
    /\ Len(eventTbl[s]) < MaxPersisted
    /\ \A i \in 1 .. Len(eventTbl[s]) :
           eventTbl[s][i].session_sequence_number # seq
    /\ eventTbl' = [eventTbl EXCEPT ![s] =
           Append(@, [session_sequence_number |-> seq, word_id |-> word_id,
                      response_time_ms |-> rt])]
    /\ ResetLast
    /\ UNCHANGED <<estVars, summaryTbl, baselineTbl, wordStatusTbl, predLog,
                   life, recoveries, acceptedLog, rlVars>>

\* the ingestion side recomputes a user's baselines
UpdateBaselines(u, cfg) ==
    /\ baselineTbl[u] # cfg
    /\ baselineTbl' = [baselineTbl EXCEPT ![u] = cfg]
    /\ ResetLast
    /\ UNCHANGED <<estVars, summaryTbl, eventTbl, wordStatusTbl, predLog,
                   life, recoveries, acceptedLog, rlVars>>

\* a word's status changes in user_words
SetWordStatus(w, status) ==
    /\ word_status_of(w) # status
    /\ wordStatusTbl' = Put(wordStatusTbl, w, status)
    /\ ResetLast
    /\ UNCHANGED <<estVars, summaryTbl, eventTbl, baselineTbl, predLog,
                   life, recoveries, acceptedLog, rlVars>>

\* the process restarts: the estimator singleton is constructed anew
Restart ==
    /\ sessions # <<>>
    /\ sessions' = <<>>
    /\ life' = [s \in SessionIds |-> IF life[s] = "active" THEN "lost"
                                     ELSE life[s]]
    /\ acceptedLog' = [s \in SessionIds |-> <<>>]
    /\ ResetLast
    /\ UNCHANGED <<lock, pc, local, clStore, recoveries, rlVars>>

(* SpecCL: the session life cycle.  Live events carry the defaults          *)
(* word_id = None and sequence = 0, as in tests/test_estimator.py.          *)

LiveStatuses == Statuses \cup {None}

NextCL ==
    \/ \E s \in SessionIds, u \in UserIds, mod \in Modules :
           route_init_session(s, u, mod)
    \/ \E s \in SessionIds, st \in LiveStatuses, rt \in RtInputs :
           route_record_event(s, None, st, rt, 0)
    \/ \E s \in SessionIds : route_get_session_load(s)
    \/ \E s \in SessionIds, stored \in BOOLEAN, logged \in BOOLEAN :
           route_end_session(s, stored, logged)
    \/ \E s \in SessionIds, u \in UserIds : CreateSummary(s, u, "story_engine")
    \/ \E s \in SessionIds : PersistEvent(s, None, 5000, 0)
    \/ Restart

SpecCL == InitCL /\ [][NextCL]_vars

(* SpecRecover: restart recovery.  The store holds an event log when the    *)
(* service starts with an empty estimator; baselines and word statuses     *)
(* keep changing between recoveries.                                       *)

PersistedRows ==
    [ session_sequence_number : SeqNumbers,
      word_id                 : WordIds \cup {None},
      response_time_ms        : {NullRt, 5000} ]

\* every insertion order of at most n rows with distinct sequence numbers
RECURSIVE EventLogs(_)
EventLogs(n) ==
    IF n = 0 THEN {<<>>}
    ELSE EventLogs(n - 1) \cup
         { Append(q, r) : q \in {l \in EventLogs(n - 1) : Len(l) = n - 1},
                          r \in PersistedRows }

DistinctSeqs(q) ==
    \A i, j \in 1 .. Len(q) :
        i # j => q[i].session_sequence_number # q[j].session_sequence_number

RecoverBaselines ==
    { c \in BaselineConfigs : c.user = <<>> => c.bucket = <<>> }

InitRecover ==
    /\ sessions = <<>>
    /\ lock = NoWorker
    /\ pc = [w \in Workers |-> "idle"]
    /\ local = [w \in Workers |-> NoLocal]
    /\ summaryTbl = <<>>
    /\ eventTbl \in [SessionIds -> {q \in EventLogs(MaxPersisted) :
                                       DistinctSeqs(q)}]
    /\ baselineTbl \in [UserIds -> RecoverBaselines]
    /\ wordStatusTbl = <<>>
    /\ predLog = {}
    /\ life = [s \in SessionIds |-> "new"]
    /\ lastEnd = NoEnd
    /\ lastRecord = NoRecord
    /\ recoveries = {}
    /\ acceptedLog = [s \in SessionIds |-> <<>>]
    /\ InitRLIdle

NextRecover ==
    \/ \E s \in SessionIds : route_get_session_load(s)
    \/ \E s \in SessionIds, u \in UserIds : CreateSummary(s, u, "story_engine")
    \/ \E u \in UserIds, cfg \in RecoverBaselines : UpdateBaselines(u, cfg)
    \/ \E w \in WordIds : SetWordStatus(w, "new")
    \/ Restart

SpecRecover == InitRecover /\ [][NextRecover]_vars

-----------------------------------------------------------------------------
(* SpecThreads: the estimator called from several threads.  Every method   *)
(* runs its body inside `with self._lock:`.  init_session, end_session and *)
(* get_session_load touch the dict once inside the lock and are one step;  *)
(* record_event reads the state, appends to its deque and then updates its *)
(* counter, one step each.  acceptedLog takes an event at the moment its   *)
(* call finds the session under the lock: the order in which the mutex     *)
(* serialises the calls.                                                   *)

MaxCalls == 3       \* record_event calls accepted per session between inits

ThreadRts  == {0, 3000, 5000}
ThreadSeqs == 0 .. 1

\* threading.Lock that never blocks
lock_is_free_always == TRUE

\* threading.Lock: acquire proceeds only while nobody holds the lock
lock_is_free == lock = NoWorker

InitThreads ==
    /\ sessions = <<>>
    /\ lock = NoWorker
    /\ pc = [w \in Workers |-> "idle"]
    /\ local = [w \in Workers |-> NoLocal]
    /\ summaryTbl = <<>>
    /\ eventTbl = [s \in SessionIds |-> <<>>]
    /\ baselineTbl = [u \in UserIds |->
                         [user |-> <<>>, module |-> <<>>, bucket |-> <<>>]]
    /\ wordStatusTbl = <<>>
    /\ predLog = {}
    /\ life = [s \in SessionIds |-> "new"]
    /\ lastEnd = NoEnd
    /\ lastRecord = NoRecord
    /\ recoveries = {}
    /\ acceptedLog = [s \in SessionIds |-> <<>>]
    /\ InitRLIdle

notEst == <<clStore, life, lastEnd, lastRecord, recoveries, rlVars>>

\* estimator.init_session(s, u, mod) with the default baseline
t_init_session(w, s, u, mod) ==
    /\ pc[w] = "idle"
    /\ lock_is_free
    /\ sessions' = init_session(sessions, s, u, mod, default_baseline_ms,
                                <<>>, <<>>)
    /\ acceptedLog' = [acceptedLog EXCEPT ![s] = <<>>]
    /\ local' = [local EXCEPT ![w] = [op |-> "init_session"]]
    /\ UNCHANGED <<lock, pc, notEst>>

\* estimator.end_session(s)
t_end_session(w, s) ==
    /\ pc[w] = "idle"
    /\ lock_is_free
    /\ sessions' = end_session(sessions, s)
    /\ acceptedLog' = [acceptedLog EXCEPT ![s] = <<>>]
    /\ local' = [local EXCEPT ![w] =
                    [op |-> "end_session", result |-> end_result(sessions, s)]]
    /\ UNCHANGED <<lock, pc, notEst>>

\* the consecutive_high_load a sequential run over the events q leaves
RECURSIVE Consecutive(_)
Consecutive(q) ==
    IF q = <<>> THEN 0
    ELSE next_consecutive(Consecutive(SubSeq(q, 1, Len(q) - 1)),
                          q[Len(q)].cognitive_load)

\* estimator.get_session_load(s): what it saw, beside what had been accepted
t_get_session_load(w, s) ==
    /\ pc[w] = "idle"
    /\ lock_is_free
    /\ s \in DOMAIN sessions
    /\ local' = [local EXCEPT ![w] =
           [ op       |-> "get_session_load",
             snapshot |-> snapshot_of(sessions[s]),
             accepted |-> Len(acceptedLog[s]),
             expected |-> Consecutive(acceptedLog[s]) ]]
    /\ UNCHANGED <<sessions, lock, pc, acceptedLog, notEst>>

\* record_event, entry: the response-time check, before the lock
t_record_call(w, s, rt, seq) ==
    /\ pc[w] = "idle"
    /\ IF rt = NullRt \/ rt <= 0
       THEN /\ local' = [local EXCEPT ![w] =
                            [op |-> "record_event", result |-> NoneLoad]]
            /\ pc' = pc
       ELSE /\ local' = [local EXCEPT ![w] =
                            [op |-> "record_event", session_id |-> s,
                             response_time_ms |-> rt, sequence |-> seq]]
            /\ pc' = [pc EXCEPT ![w] = "rec_lock"]
    /\ UNCHANGED <<sessions, lock, acceptedLog, notEst>>

\* record_event: acquire the lock, self._sessions.get(session_id), resolve
\* the baseline and build the EventLoad
t_record_enter(w) ==
    /\ pc[w] = "rec_lock"
    /\ lock_is_free
    /\ LET s == local[w].session_id IN
       IF s \notin DOMAIN sessions
       THEN /\ local' = [local EXCEPT ![w] =
                            [op |-> "record_event", result |-> NoneLoad]]
            /\ pc' = [pc EXCEPT ![w] = "idle"]
            /\ UNCHANGED <<lock, acceptedLog>>
       ELSE LET e == EventLoad(local[w].sequence, None,
                               local[w].response_time_ms,
                               resolve_baseline(sessions[s], None))
            IN  /\ Len(acceptedLog[s]) < MaxCalls
                /\ lock' = w
                /\ local' = [local EXCEPT ![w] =
                       [op |-> "record_event", session_id |-> s, event |-> e]]
                /\ acceptedLog' = [acceptedLog EXCEPT ![s] = Append(@, e)]
                /\ pc' = [pc EXCEPT ![w] = "rec_append"]
    /\ UNCHANGED <<sessions, notEst>>

\* record_event: state.events.append(event)
t_record_append(w) ==
    /\ pc[w] = "rec_append"
    /\ LET s == local[w].session_id IN
       sessions' = IF s \in DOMAIN sessions
                   THEN [sessions EXCEPT ![s].events =
                            deque_append(@, local[w].event)]
                   ELSE sessions
    /\ pc' = [pc EXCEPT ![w] = "rec_count"]
    /\ UNCHANGED <<lock, local, acceptedLog, notEst>>

\* record_event: the consecutive_high_load update, then the lock is released
t_record_count(w) ==
    /\ pc[w] = "rec_count"
    /\ LET s == local[w].session_id IN
       sessions' = IF s \in DOMAIN sessions
                   THEN [sessions EXCEPT ![s].consecutive_high_load =
                            next_consecutive(@, local[w].event.cognitive_load)]
                   ELSE sessions
    /\ lock' = NoWorker
    /\ local' = [local EXCEPT ![w] =
           [op |-> "record_event",
            result |-> local[w].event.cognitive_load]]
    /\ pc' = [pc EXCEPT ![w] = "idle"]
    /\ UNCHANGED <<acceptedLog, notEst>>

NextThreads ==
    \/ \E w \in Workers, s \in SessionIds, u \in UserIds, mod \in Modules :
           t_init_session(w, s, u, mod)
    \/ \E w \in Workers, s \in SessionIds : t_end_session(w, s)
    \/ \E w \in Workers, s \in SessionIds : t_get_session_load(w, s)
    \/ \E w \in Workers, s \in SessionIds, rt \in ThreadRts,
          q \in ThreadSeqs : t_record_call(w, s, rt, q)
    \/ \E w \in Workers : t_record_enter(w)
    \/ \E w \in Workers : t_record_append(w)
    \/ \E w \in Workers : t_record_count(w)

SpecThreads == InitThreads /\ [][NextThreads]_vars

\* the workers inside record_event's critical section on session s
InFlight(s) ==
    {w \in Workers : pc[w] \in {"rec_append", "rec_count"}
                     /\ local[w].session_id = s}

\* C3: record_event calls on one session are applied atomically, one at a
\* time, in the order the mutex admits them: at most one call is inside the
\* critical section, a finished call has left exactly one entry, the window
\* lists the accepted events in that order, consecutive_high_load is what a
\* sequential run in that order gives, and no get_session_load sees an
\* update half applied.
C3_SerialisedInOrder ==
    /\ Cardinality({w \in Workers : pc[w] \in {"rec_append", "rec_count"}})
           <= 1
    /\ \A s \in DOMAIN sessions :
           InFlight(s) = {} =>
               /\ sessions[s].events = acceptedLog[s]
               /\ sessions[s].consecutive_high_load =
                      Consecutive(acceptedLog[s])
    /\ \A w \in Workers :
           local[w].op = "get_session_load" =>
               /\ local[w].snapshot.eventCount = local[w].accepted
               /\ local[w].snapshot.consecutiveHighLoad = local[w].expected

\* C3 witness: a second call waits for the lock while the first is between
\* its append and its counter update, on a session that already holds a
\* high-load event
C3_Witness ==
    \E w1, w2 \in Workers, s \in DOMAIN sessions :
        /\ pc[w1] = "rec_count" /\ pc[w2] = "rec_lock"
        /\ local[w1].session_id = s /\ local[w2].session_id = s
        /\ Len(sessions[s].events) = 2
        /\ sessions[s].consecutive_high_load = 1

-----------------------------------------------------------------------------
(* SpecWindow: one session fed a long stream of events, long enough to     *)
(* pass the deque's maxlen.  The n-th event carries sequence number n, so  *)
(* that entries can be told apart; its response time alternates between a  *)
(* low-load and a high-load value.                                         *)

StreamRt(n) == IF n % 2 = 0 THEN 5000 ELSE 3000

InitWindow == InitThreads

stream_init_session(s, u, mod) ==
    /\ sessions' = init_session(sessions, s, u, mod, default_baseline_ms,
                                <<>>, <<>>)
    /\ acceptedLog' = [acceptedLog EXCEPT ![s] = <<>>]
    /\ UNCHANGED <<lock, pc, local, notEst>>

\* the next record_event call of the stream
stream_record_event(s) ==
    /\ s \in DOMAIN sessions
    /\ Len(acceptedLog[s]) < MaxStream
    /\ LET n  == Len(acceptedLog[s])
           m2 == record_event(sessions, s, None, None, StreamRt(n), n)
       IN  /\ sessions' = m2
           /\ acceptedLog' = [acceptedLog EXCEPT ![s] =
                  Append(@, EventLoad(n, None, StreamRt(n),
                                      resolve_baseline(sessions[s], None)))]
    /\ UNCHANGED <<lock, pc, local, notEst>>

NextWindow ==
    \/ \E s \in SessionIds, u \in UserIds, mod \in Modules :
           stream_init_session(s, u, mod)
    \/ \E s \in SessionIds : stream_record_event(s)

SpecWindow == InitWindow /\ [][NextWindow]_vars

\* the last n entries of q, all of q when it has fewer
MostRecent(q, n) ==
    IF Len(q) <= n THEN q
    ELSE [i \in 1 .. n |-> q[Len(q) - n + i]]

\* C4: a session's window never holds more than 500 entries, and it is the
\* (at most) 500 most recently accepted events in arrival order.
C4_WindowBounded ==
    \A s \in DOMAIN sessions :
        /\ Len(sessions[s].events) <= 500
        /\ sessions[s].events = MostRecent(acceptedLog[s], 500)

\* C4 witness: more than 500 events were accepted and the window is full
C4_Witness ==
    \E s \in DOMAIN sessions :
        /\ Len(acceptedLog[s]) > 500
        /\ Len(sessions[s].events) = 500
        /\ sessions[s].events[1].sequence = Len(acceptedLog[s]) - 500

-----------------------------------------------------------------------------
(* Properties of the session life cycle (SpecCL)                           *)

\* C1: once end_session(s) has returned, s stays untracked in memory under
\* every later record_event and get_session_load request, the restart
\* recovery of get_session_load included, until init_session(s) is called
\* again.
C1_EndedStaysUntracked ==
    \A s \in SessionIds : life[s] = "ended" => s \notin DOMAIN sessions

\* C2: the first end_session(s) after init_session(s) returns the mean of
\* the recorded loads (0 without events); every later end_session(s) with no
\* init_session(s) in between returns null, changes nothing in memory and
\* writes nothing to session_summaries.
C2_EndIdempotent ==
    /\ lastEnd.before = "active" =>
           IF lastEnd.loads = <<>> THEN lastEnd.result = 0
           ELSE LET n   == Len(lastEnd.loads)
                    sum == SumSeq(lastEnd.loads)
                    d   == lastEnd.result * n - sum
                IN  lastEnd.result # NoneLoad /\ 2 * d <= n /\ -2 * d <= n
    /\ lastEnd.before = "ended" =>
           /\ lastEnd.result = NoneLoad
           /\ ~lastEnd.memChanged
           /\ ~lastEnd.summaryWritten

\* the baseline the hierarchy bucket > module > user > 3000 ms prescribes,
\* read off the store's baselines of user u
HierarchyBaseline(u, mod, word_status) ==
    LET c == baselineTbl[u] IN
    IF /\ word_status # None
       /\ mod \in DOMAIN c.bucket
       /\ word_status \in DOMAIN c.bucket[mod]
    THEN c.bucket[mod][word_status]
    ELSE IF mod \in DOMAIN c.module THEN c.module[mod]
    ELSE IF c.user # <<>> THEN c.user[1]
    ELSE 3000

-----------------------------------------------------------------------------
(* Properties of restart recovery (SpecRecover)                            *)

\* the rows of a log that record_event accepts
Scored(log) == {r \in log : r.response_time_ms # NullRt
                            /\ r.response_time_ms > 0}

\* the window holds one entry per scored row, in ascending sequence order
ReplayedInOrder(r) ==
    /\ Len(r.window) = Cardinality(Scored(r.log))
    /\ {r.window[i].sequence : i \in 1 .. Len(r.window)} =
           {row.session_sequence_number : row \in Scored(r.log)}
    /\ \A i, j \in 1 .. Len(r.window) :
           i < j => r.window[i].sequence < r.window[j].sequence
    /\ r.snapshot # <<>>
    /\ r.snapshot[1].eventCount = Len(r.window)

\* C5 as stated: a recovery replays the persisted events in ascending
\* sequence order and its snapshot is determined by the event log alone.
C5_LogAloneDetermines ==
    /\ \A r \in recoveries : ReplayedInOrder(r)
    /\ \A r1, r2 \in recoveries :
           r1.session = r2.session /\ r1.log = r2.log
               => r1.snapshot = r2.snapshot

\* C5 amended: a recovery replays the persisted events in ascending sequence
\* order, and two recoveries from the same event log return the same
\* snapshot when the session's user and module, the user's baselines and
\* the word statuses in the store are the same as well.
C5_ReplayDeterministic ==
    /\ \A r \in recoveries : ReplayedInOrder(r)
    /\ \A r1, r2 \in recoveries :
           /\ r1.session = r2.session /\ r1.log = r2.log
           /\ r1.user_id = r2.user_id /\ r1.module = r2.module
           /\ r1.baseline = r2.baseline /\ r1.statuses = r2.statuses
           => r1.snapshot = r2.snapshot /\ r1.window = r2.window

\* C5 witness: a log whose rows were inserted out of sequence order was
\* replayed, twice, and the two snapshots differ
C5_Witness ==
    \E r1, r2 \in recoveries :
        /\ r1.log = r2.log /\ r1.session = r2.session
        /\ r1.snapshot # r2.snapshot
        /\ Len(r1.window) >= 2
        /\ \E i, j \in 1 .. Len(eventTbl[r1.session]) :
               /\ i < j
               /\ eventTbl[r1.session][i].session_sequence_number >
                      eventTbl[r1.session][j].session_sequence_number

-----------------------------------------------------------------------------
(* The RL module router.  Scores and loads are percentages, rewards are    *)
(* counted in halves (+2.0 is 4), timestamps are ticks of a logical clock. *)

MaxDecisions == 2       \* rows of routing_decisions
MaxRlSessions == 1      \* rows of session_summaries written after start
MaxRewards == 2         \* rows of routing_rewards
MaxRouted == 1          \* rows of routing_decisions while only routing

min_events == 50
production_score_threshold == 40
pronunciation_score_threshold == 30
grammar_mastery_threshold == 30
default_module == "story_engine"
min_sessions_for_ppo == 10000
max_target_words == 20
recall_improvement == 4
production_improvement == 3
session_completed_reward == 2
pronunciation_improvement == 1
session_abandoned == -2
monotony_penalty == -1
monotony_window == 3

actions ==
    << "story_engine", "anki_drill", "cloze_practice", "conjugation_drill",
       "pronunciation_session", "grammar_lesson", "rest" >>

ActionSet == {actions[i] : i \in DOMAIN actions}

\* UserState, the fields the router reads
UserState(events, prod, pron, lowProd, lowPron, tag, tagScore, cog, minutes) ==
    [ event_count                 |-> events,
      avg_production_score        |-> prod,
      avg_pronunciation_score     |-> pron,
      low_production_words        |-> lowProd,
      low_pronunciation_words     |-> lowPron,
      weakest_concept_tag         |-> tag,
      weakest_concept_score       |-> tagScore,
      cognitive_load_last_session |-> cog,
      estimated_available_minutes |-> minutes ]

\* what assemble_state may return: a new user with weak production, a new
\* user with healthy scores and three minutes, an established user with
\* a quarter of an hour, an established user with weak words and three
\* minutes, one with words weak in pronunciation only and three minutes, and
\* one with exactly five minutes
UserStates ==
    { UserState(49, 30, 50, <<"w1">>, <<>>, None, 100, 50, 15),
      UserState(49, 50, 50, <<>>, <<>>, None, 100, 50, 3),
      UserState(50, 50, 50, <<>>, <<>>, None, 100, 50, 15),
      UserState(50, 50, 50, <<"w1">>, <<>>, None, 100, 50, 3),
      UserState(50, 50, 50, <<>>, <<"w2">>, None, 100, 50, 3),
      UserState(50, 50, 50, <<>>, <<>>, None, 100, 50, 5) }

\* UserState.to_snapshot(): the lists of weak words are not part of it
to_snapshot(st) ==
    [ event_count                 |-> st.event_count,
      avg_production_score        |-> st.avg_production_score,
      avg_pronunciation_score     |-> st.avg_pronunciation_score,
      weakest_concept_tag         |-> st.weakest_concept_tag,
      weakest_concept_score       |-> st.weakest_concept_score,
      cognitive_load_last_session |-> st.cognitive_load_last_session,
      estimated_available_minutes |-> st.estimated_available_minutes ]

\* the first n elements of q
Take(q, n) == SubSeq(q, 1, Min(n, Len(q)))

RouteResult(module, words, concept) ==
    [module |-> module, target_words |-> words, target_concept |-> concept]

\* cold_start_recommend with the pronunciation rule ahead of the production
\* rule
cold_start_recommend_pronunciation_first(st) ==
    IF st.avg_pronunciation_score < pronunciation_score_threshold
       \/ Len(st.low_pronunciation_words) > 0
    THEN RouteResult("pronunciation_session",
                     Take(st.low_pronunciation_words, max_target_words), None)
    ELSE IF st.avg_production_score < production_score_threshold
            \/ Len(st.low_production_words) > 0
    THEN RouteResult("conjugation_drill",
                     Take(st.low_production_words, max_target_words), None)
    ELSE IF st.weakest_concept_tag # None
            /\ st.weakest_concept_score < grammar_mastery_threshold
    THEN RouteResult("grammar_lesson", <<>>, st.weakest_concept_tag)
    ELSE IF st.cognitive_load_last_session > 85
    THEN RouteResult("rest", <<>>, None)
    ELSE RouteResult(default_module, <<>>, None)

cold_start_recommend(st) ==
    IF st.avg_production_score < production_score_threshold
       \/ Len(st.low_production_words) > 0
    THEN RouteResult("conjugation_drill",
                     Take(st.low_production_words, max_target_words), None)
    ELSE IF st.avg_pronunciation_score < pronunciation_score_threshold
            \/ Len(st.low_pronunciation_words) > 0
    THEN RouteResult("pronunciation_session",
                     Take(st.low_pronunciation_words, max_target_words), None)
    ELSE IF st.weakest_concept_tag # None
            /\ st.weakest_concept_score < grammar_mastery_threshold
    THEN RouteResult("grammar_lesson", <<>>, st.weakest_concept_tag)
    ELSE IF st.cognitive_load_last_session > 85
    THEN RouteResult("rest", <<>>, None)
    ELSE RouteResult(default_module, <<>>, None)

\* _run_bandit and _run_ppo: the model's choice is an input of the call
run_model(choice) == RouteResult(choice, <<>>, None)

\* _should_use_ppo: count_ok is FALSE when count_total_sessions raises
should_use_ppo(is_loaded, count_ok, total) ==
    IF ~is_loaded THEN FALSE
    ELSE IF ~count_ok THEN FALSE
    ELSE total >= min_sessions_for_ppo

\* the algorithm choice with the cold-start threshold off by one
select_algorithm_inclusive(st, is_loaded, count_ok, total) ==
    IF st.event_count <= min_events THEN "cold_start"
    ELSE IF should_use_ppo(is_loaded, count_ok, total) THEN "ppo"
    ELSE "linucb"

select_algorithm(st, is_loaded, count_ok, total) ==
    IF st.event_count < min_events THEN "cold_start"
    ELSE IF should_use_ppo(is_loaded, count_ok, total) THEN "ppo"
    ELSE "linucb"

enrich_targets(result, st) ==
    LET m == result.module IN
    IF m = "anki_drill"
    THEN IF Len(st.low_production_words) > 0
         THEN [result EXCEPT !.target_words =
                  Take(st.low_production_words, max_target_words)]
         ELSE result
    ELSE IF m = "cloze_practice"
    THEN [result EXCEPT !.target_words =
             Take(st.low_production_words, max_target_words)]
    ELSE IF m = "conjugation_drill"
    THEN [result EXCEPT
             !.target_words = Take(st.low_production_words, max_target_words),
             !.target_concept = IF st.weakest_concept_tag # None
                                THEN st.weakest_concept_tag ELSE @]
    ELSE IF m = "pronunciation_session"
    THEN [result EXCEPT !.target_words =
             Take(st.low_pronunciation_words, max_target_words)]
    ELSE IF m = "grammar_lesson"
    THEN [result EXCEPT !.target_concept =
             IF st.weakest_concept_tag # None
             THEN st.weakest_concept_tag ELSE @]
    ELSE result

\* _apply_time_constraint that only looks at the words weak in production
apply_time_constraint_production_only(result, st) ==
    IF st.estimated_available_minutes < 5 /\ result.module = "story_engine"
    THEN IF Len(st.low_production_words) > 0
         THEN [result EXCEPT !.module = "anki_drill"]
         ELSE [result EXCEPT !.module = "rest"]
    ELSE result

\* _apply_time_constraint: the reason text is not modelled
apply_time_constraint(result, st) ==
    IF st.estimated_available_minutes < 5 /\ result.module = "story_engine"
    THEN IF Len(st.low_production_words) > 0
         THEN [result EXCEPT !.module = "anki_drill"]
         ELSE IF Len(st.low_pronunciation_words) > 0
         THEN [result EXCEPT !.module = "pronunciation_session"]
         ELSE [result EXCEPT !.module = "rest"]
    ELSE result

\* compute_reward: `None > 0.7` raises TypeError when a session that is not
\* completed has no estimated_cognitive_load yet
compute_reward_raises(completed, load) == ~completed /\ load = NoneLoad

\* the last n elements of q are all equal to x
AllLast(q, n, x) == \A k \in (Len(q) - n + 1) .. Len(q) : q[k] = x

\* compute_reward without the penalty for an abandoned session
compute_reward_no_abandon(decision, post_state, completed, load, last_n_modules) ==
    LET pre == decision.state_snapshot IN
      (IF post_state.avg_recall > 50 THEN recall_improvement ELSE 0)
    + (IF post_state.avg_production_score > pre.avg_production_score
       THEN production_improvement ELSE 0)
    + (IF completed THEN session_completed_reward ELSE 0)
    + (IF post_state.avg_pronunciation_score > pre.avg_pronunciation_score
       THEN pronunciation_improvement ELSE 0)
    + (IF Len(last_n_modules) >= monotony_window
          /\ AllLast(last_n_modules, monotony_window,
                     decision.recommended_module)
       THEN monotony_penalty ELSE 0)

\* compute_reward: the total; pre_state is the decision's snapshot, which
\* has no avg_recall, so recall is compared with the default 0.5
compute_reward(decision, post_state, completed, load, last_n_modules) ==
    LET pre == decision.state_snapshot IN
      (IF post_state.avg_recall > 50 THEN recall_improvement ELSE 0)
    + (IF post_state.avg_production_score > pre.avg_production_score
       THEN production_improvement ELSE 0)
    + (IF completed THEN session_completed_reward ELSE 0)
    + (IF post_state.avg_pronunciation_score > pre.avg_pronunciation_score
       THEN pronunciation_improvement ELSE 0)
    + (IF ~completed /\ load > 70 THEN session_abandoned ELSE 0)
    + (IF Len(last_n_modules) >= monotony_window
          /\ AllLast(last_n_modules, monotony_window,
                     decision.recommended_module)
       THEN monotony_penalty ELSE 0)

\* what fetch_vocabulary_scores and fetch_dkt_knowledge_state give when the
\* reward is observed: nothing moved, or everything improved
PostStates ==
    { [avg_production_score |-> 50, avg_pronunciation_score |-> 50,
       avg_recall |-> 50],
      [avg_production_score |-> 60, avg_pronunciation_score |-> 60,
       avg_recall |-> 60] }

\* indexes of the user's sessions started after time t, earliest first
sessions_after(u, t) ==
    {k \in DOMAIN rlSessions :
        rlSessions[k].user_id = u /\ rlSessions[k].started_at > t}

\* .order("started_at").limit(1): rows are appended in start order
first_session_after(u, t) ==
    CHOOSE k \in sessions_after(u, t) :
        \A j \in sessions_after(u, t) : k <= j

\* fetch_last_n_modules: module_source of the user's last n sessions,
\* most recent first
fetch_last_n_modules(u, n) ==
    LET mine == SelectSeq(rlSessions, LAMBDA r : r.user_id = u)
        k    == Min(n, Len(mine))
    IN  [j \in 1 .. k |-> mine[Len(mine) - j + 1].module_source]

NoResponse == [kind |-> None]

\* Python's None where a row id is expected; ids count from 1
NoId == 0

\* save_routing_decision's return value that ignores the insert's outcome
save_returns_always(outcome, id) == id

\* save_routing_decision: the new row's id when the insert answered with the
\* row, no id when it raised or answered with no data
save_returns(outcome, id) == IF outcome = "ok" THEN id ELSE NoId

InsertOutcomes == {"ok", "empty", "error"}

routing_decision_row(id, u, result, snapshot, algorithm, t) ==
    [ id                 |-> id,
      user_id            |-> u,
      recommended_module |-> result.module,
      target_word_ids    |-> result.target_words,
      target_concept     |-> result.target_concept,
      state_snapshot     |-> snapshot,
      algorithm_used     |-> algorithm,
      created_at         |-> t ]

\* what the router's request handlers leave alone
clVars == <<estVars, clStore, clHist, opsVars>>

\* POST /ml/router/next-activity
next_activity(u, st, is_loaded, count_ok, other_sessions, choice, outcome) ==
    LET total     == other_sessions + Len(rlSessions)
        algorithm == select_algorithm(st, is_loaded, count_ok, total)
        r0     == IF algorithm = "cold_start" THEN cold_start_recommend(st)
                  ELSE run_model(choice)
        result == apply_time_constraint(enrich_targets(r0, st), st)
        id     == Len(decisions) + 1
        stored == outcome # "error"
    IN  /\ stored => Len(decisions) < MaxDecisions
        /\ decisions' = IF stored
                        THEN Append(decisions,
                                 routing_decision_row(id, u, result,
                                     to_snapshot(st), algorithm, now))
                        ELSE decisions
        /\ now' = IF stored THEN now + 1 ELSE now
        /\ lastResponse' =
               [ kind              |-> "next_activity",
                 recommendedModule |-> result.module,
                 algorithm         |-> algorithm,
                 decisionId        |-> save_returns(outcome, id),
                 snapshot          |-> to_snapshot(st),
                 rowsBefore        |-> Len(decisions),
                 \* history: what the call found
                 state             |-> st,
                 choice            |-> choice,
                 ppo_loaded        |-> is_loaded,
                 count_ok          |-> count_ok,
                 total_sessions    |-> total ]
        /\ UNCHANGED <<rewards, rlSessions, bandit, clVars>>

\* _online_update_bandit that does not look at algorithm_used
online_update_bandit_any(decision, refetched) ==
    IF ~refetched THEN bandit
    ELSE IF decision.recommended_module \in ActionSet
    THEN bandit_update(bandit, decision.recommended_module)
    ELSE bandit

\* _online_update_bandit: the bandit after the call; refetched is FALSE when
\* reading the decision row again raises, which the function swallows
online_update_bandit(decision, refetched) ==
    IF ~refetched THEN bandit
    ELSE IF decision.algorithm_used = "linucb"
            /\ decision.recommended_module \in ActionSet
    THEN bandit_update(bandit, decision.recommended_module)
    ELSE bandit

\* history kept with an observe_reward response: the decision asked for,
\* whether a reward was computed, whether the decision row could be read
\* again, and the model before the call
ObserveHistory(d, computed, refetched) ==
    [ decision_id |-> d, computed |-> computed, refetched |-> refetched,
      bandit_before |-> bandit ]

\* POST /ml/router/observe-reward
observe_reward(d, u, post_state, saved, refetched) ==
    IF d \notin DOMAIN decisions
    THEN \* .single() raises: HTTP 500
         /\ lastResponse' = [kind |-> "observe_reward", status |-> 500,
                             persisted |-> FALSE, updated |-> FALSE,
                             found |-> FALSE, ended |-> FALSE]
                            @@ ObserveHistory(d, FALSE, FALSE)
         /\ UNCHANGED <<decisions, rewards, rlSessions, now, bandit, clVars>>
    ELSE IF sessions_after(u, decisions[d].created_at) = {}
    THEN /\ lastResponse' = [kind |-> "observe_reward", status |-> 200,
                             reward |-> 0, observation_id |-> NoId,
                             persisted |-> FALSE, updated |-> FALSE,
                             found |-> FALSE, ended |-> FALSE]
                            @@ ObserveHistory(d, FALSE, FALSE)
         /\ UNCHANGED <<decisions, rewards, rlSessions, now, bandit, clVars>>
    ELSE LET k   == first_session_after(u, decisions[d].created_at)
             row == rlSessions[k]
         IN
         IF compute_reward_raises(row.completed_session,
                                  row.estimated_cognitive_load)
         THEN /\ lastResponse' = [kind |-> "observe_reward", status |-> 500,
                                  persisted |-> FALSE, updated |-> FALSE,
                                  found |-> TRUE, ended |-> row.ended]
                                 @@ ObserveHistory(d, FALSE, FALSE)
              /\ UNCHANGED <<decisions, rewards, rlSessions, now, bandit,
                             clVars>>
         ELSE LET total == compute_reward(decisions[d], post_state,
                               row.completed_session,
                               row.estimated_cognitive_load,
                               fetch_last_n_modules(u, monotony_window))
                  oid   == Len(rewards) + 1
              IN  /\ saved => Len(rewards) < MaxRewards
                  /\ bandit.total_updates < MaxRewards
                  /\ rewards' = IF saved
                                THEN Append(rewards,
                                       [ id            |-> oid,
                                         decision_id   |-> d,
                                         user_id       |-> u,
                                         reward        |-> total,
                                         \* history: the session it was
                                         \* computed from, and whether that
                                         \* session had ended by then
                                         session       |-> k,
                                         session_ended |-> row.ended ])
                                ELSE rewards
                  /\ bandit' = online_update_bandit(decisions[d], refetched)
                  /\ lastResponse' =
                         [ kind |-> "observe_reward", status |-> 200,
                           reward |-> total,
                           observation_id |-> IF saved THEN oid ELSE NoId,
                           persisted |-> saved,
                           updated |-> bandit' # bandit,
                           found |-> TRUE, ended |-> row.ended ]
                         @@ ObserveHistory(d, TRUE, refetched)
                  /\ UNCHANGED <<decisions, rlSessions, now, clVars>>

\* the application opens a session: a session_summaries row without
\* ended_at and without estimated_cognitive_load
StartSession(u, mod) ==
    /\ Len(rlSessions) < MaxRlSessions
    /\ rlSessions' = Append(rlSessions,
           [ user_id |-> u, started_at |-> now, ended |-> FALSE,
             completed_session |-> FALSE,
             estimated_cognitive_load |-> NoneLoad,
             module_source |-> mod ])
    /\ now' = now + 1
    /\ lastResponse' = NoResponse
    /\ UNCHANGED <<decisions, rewards, bandit, clVars>>

\* the cognitive-load service's update_session_cognitive_load on that row
WriteSessionLoad(k, load) ==
    /\ k \in DOMAIN rlSessions
    /\ rlSessions[k].estimated_cognitive_load = NoneLoad
    /\ rlSessions' = [rlSessions EXCEPT ![k].estimated_cognitive_load = load]
    /\ lastResponse' = NoResponse
    /\ UNCHANGED <<decisions, rewards, now, bandit, clVars>>

\* the application closes the session: ended_at and completed_session
FinishSession(k, completed) ==
    /\ k \in DOMAIN rlSessions
    /\ ~rlSessions[k].ended
    /\ rlSessions' = [rlSessions EXCEPT ![k].ended = TRUE,
                                        ![k].completed_session = completed]
    /\ lastResponse' = NoResponse
    /\ UNCHANGED <<decisions, rewards, now, bandit, clVars>>

BanditChoices == {"story_engine", "grammar_lesson"}
SessionLoads == {50, 80}
SessionModules == {"story_engine"}

\* ppo_agent.is_loaded, whether count_total_sessions answers, and the number
\* of session rows of other users
PpoInputs ==
    { <<FALSE, TRUE, min_sessions_for_ppo>>,
      <<TRUE, TRUE, min_sessions_for_ppo - 1>>,
      <<TRUE, TRUE, min_sessions_for_ppo>>,
      <<TRUE, FALSE, min_sessions_for_ppo>> }

InitRouter == InitThreads

(* SpecRouter: recommendations being made while sessions are opened.       *)

NextRouter ==
    \/ \E u \in UserIds, st \in UserStates, ppo \in PpoInputs,
          choice \in BanditChoices, outcome \in InsertOutcomes :
           /\ Len(decisions) < MaxRouted
           /\ next_activity(u, st, ppo[1], ppo[2], ppo[3], choice, outcome)
    \/ \E u \in UserIds, mod \in SessionModules : StartSession(u, mod)

SpecRouter == InitRouter /\ [][NextRouter]_vars

(* SpecReward: rewards being observed for stored decisions, made for a new *)
(* user and for an established one while no PPO model is loaded, as        *)
(* sessions are opened, scored by the cognitive-load service and closed.   *)

RewardUserStates == {st \in UserStates : st.estimated_available_minutes = 15}

NextReward ==
    \/ \E u \in UserIds, st \in RewardUserStates :
           next_activity(u, st, FALSE, TRUE, 0, "story_engine", "ok")
    \/ \E d \in 1 .. MaxDecisions, u \in UserIds, post \in PostStates,
          saved \in BOOLEAN :
           observe_reward(d, u, post, saved, TRUE)
    \/ \E u \in UserIds, mod \in SessionModules : StartSession(u, mod)
    \/ \E k \in 1 .. MaxRlSessions, load \in SessionLoads :
           WriteSessionLoad(k, load)
    \/ \E k \in 1 .. MaxRlSessions, completed \in BOOLEAN :
           FinishSession(k, completed)

SpecReward == InitRouter /\ [][NextReward]_vars

(* SpecBandit: the online update of the LinUCB model, for decisions made   *)
(* by cold_start, linucb and ppo, with the update's own read of the        *)
(* decision row succeeding or failing.                                     *)

RewardPpoInputs == {<<FALSE, TRUE, 0>>, <<TRUE, TRUE, min_sessions_for_ppo>>}

BanditPostStates ==
    { [avg_production_score |-> 60, avg_pronunciation_score |-> 60,
       avg_recall |-> 60] }

NextBandit ==
    \/ \E u \in UserIds, st \in RewardUserStates, ppo \in RewardPpoInputs :
           next_activity(u, st, ppo[1], ppo[2], ppo[3], "story_engine", "ok")
    \/ \E d \in 1 .. MaxDecisions, u \in UserIds, post \in BanditPostStates,
          saved \in BOOLEAN, refetched \in BOOLEAN :
           observe_reward(d, u, post, saved, refetched)
    \/ \E u \in UserIds, mod \in SessionModules : StartSession(u, mod)
    \/ \E k \in 1 .. MaxRlSessions : FinishSession(k, TRUE)

SpecBandit == InitRouter /\ [][NextBandit]_vars

\* C7: no routing decision has more than one reward row, counting only the
\* rows observed after the following session had ended
C7_OneRewardPerDecision ==
    \A d \in DOMAIN decisions :
        Cardinality({i \in DOMAIN rewards :
                        rewards[i].decision_id = d /\ rewards[i].session_ended})
            <= 1

\* C8: a reward row is only written, and the bandit only updated, when the
\* session that followed the decision had ended
C8_RewardOnlyAfterSessionEnded ==
    /\ \A i \in DOMAIN rewards : rewards[i].session_ended
    /\ (lastResponse.kind = "observe_reward"
        /\ (~lastResponse.found \/ ~lastResponse.ended))
           => (~lastResponse.persisted /\ ~lastResponse.updated)

\* C9: the decision of a reward row, observed after the session it was
\* computed from had ended, is the user's most recent decision before that
\* session
C9_MostRecentPriorDecision ==
    \A i \in DOMAIN rewards :
        LET r == rewards[i]
            t == rlSessions[r.session].started_at
        IN  r.session_ended =>
            \A e \in DOMAIN decisions :
                (decisions[e].user_id = decisions[r.decision_id].user_id
                 /\ decisions[e].created_at < t)
                    => decisions[e].created_at
                           <= decisions[r.decision_id].created_at

\* the rows of routing_decisions with the id a response carries
RowsOf(resp) == {i \in DOMAIN decisions : decisions[i].id = resp.decisionId}

\* the response's decision is stored once, by this call, with the returned
\* module, the snapshot the call used and the algorithm it reports
StoredAsReturned(resp) ==
    /\ Cardinality(RowsOf(resp)) = 1
    /\ Len(decisions) = resp.rowsBefore + 1
    /\ \A i \in RowsOf(resp) :
           /\ i = Len(decisions)
           /\ decisions[i].recommended_module = resp.recommendedModule
           /\ decisions[i].state_snapshot = resp.snapshot
           /\ decisions[i].algorithm_used = resp.algorithm

\* C10 as stated: every next_activity response comes with a stored decision
\* row and carries its id
C10_EveryResponseStored ==
    lastResponse.kind = "next_activity" =>
        lastResponse.decisionId # NoId /\ StoredAsReturned(lastResponse)

\* C10: a next_activity response that carries a decision id has written
\* exactly one routing_decisions row, which has that id, the returned
\* module, the state snapshot and the algorithm
C10_ReturnedIdIsStored ==
    (lastResponse.kind = "next_activity" /\ lastResponse.decisionId # NoId)
        => StoredAsReturned(lastResponse)

\* C10 witness: a recommendation made after a session was opened, changed
\* by the time constraint, came back with the id of its row
C10_Witness ==
    /\ lastResponse.kind = "next_activity"
    /\ lastResponse.decisionId = 1
    /\ lastResponse.algorithm = "linucb"
    /\ lastResponse.recommendedModule = "anki_drill"
    /\ Len(decisions) = 1
    /\ Len(rlSessions) = 1

\* C11 as stated: the algorithm is cold_start exactly when the event count
\* is below 50; otherwise ppo exactly when a PPO artifact is loaded and the
\* global session count is at least 10000; otherwise linucb
C11_AlgorithmByCounts ==
    lastResponse.kind = "next_activity" =>
        LET r == lastResponse IN
        /\ (r.algorithm = "cold_start") = (r.state.event_count < 50)
        /\ r.state.event_count >= 50 =>
               /\ (r.algorithm = "ppo") =
                      (r.ppo_loaded /\ r.total_sessions >= 10000)
               /\ r.algorithm \in {"ppo", "linucb"}

\* C11: the algorithm is cold_start exactly when the event count is below
\* 50; otherwise ppo exactly when a PPO artifact is loaded, the session count
\* could be read and it is at least 10000; otherwise linucb
C11_AlgorithmSelection ==
    lastResponse.kind = "next_activity" =>
        LET r == lastResponse IN
        /\ (r.algorithm = "cold_start") = (r.state.event_count < 50)
        /\ r.state.event_count >= 50 =>
               /\ (r.algorithm = "ppo") =
                      (r.ppo_loaded /\ r.count_ok
                       /\ r.total_sessions >= 10000)
               /\ r.algorithm \in {"ppo", "linucb"}

\* C11 witness: a user with exactly 50 events is routed by PPO when the
\* session that was just opened brought the global count to 10000
C11_Witness ==
    /\ lastResponse.kind = "next_activity"
    /\ lastResponse.state.event_count = 50
    /\ lastResponse.algorithm = "ppo"
    /\ lastResponse.total_sessions = 10000
    /\ Len(rlSessions) = 1

\* the model after exactly one update on the arm of decision d's module
UpdatedOnce(resp) ==
    bandit_update(resp.bandit_before,
                  decisions[resp.decision_id].recommended_module)

\* C12 as stated: observe_reward applies one update to the arm of the
\* decision's module exactly when a reward was computed and the decision was
\* made by linucb; in every other case the model is left as it was
C12_UpdateIffLinucbReward ==
    lastResponse.kind = "observe_reward" =>
        IF lastResponse.computed
           /\ decisions[lastResponse.decision_id].algorithm_used = "linucb"
        THEN bandit = UpdatedOnce(lastResponse)
        ELSE bandit = lastResponse.bandit_before

\* C12: observe_reward applies one update to the arm of the decision's
\* module exactly when a reward was computed, the decision was made by linucb
\* and its row could be read again for the update; in every other case every
\* arm's A, b, A_inv and the counters are left as they were
C12_UpdateFrame ==
    lastResponse.kind = "observe_reward" =>
        IF lastResponse.computed /\ lastResponse.refetched
           /\ decisions[lastResponse.decision_id].algorithm_used = "linucb"
        THEN bandit = UpdatedOnce(lastResponse)
        ELSE bandit = lastResponse.bandit_before

\* C12 witness: a reward was computed for a decision made by ppo, after the
\* model had already absorbed an update, and the model stayed as it was
C12_Witness ==
    /\ lastResponse.kind = "observe_reward"
    /\ lastResponse.computed /\ lastResponse.refetched
    /\ decisions[lastResponse.decision_id].algorithm_used = "ppo"
    /\ bandit.total_updates = 1
    /\ bandit = lastResponse.bandit_before

\* the module the algorithm chose before the time constraint, from what the
\* call found
ChosenModule(resp) ==
    IF resp.algorithm = "cold_start"
    THEN cold_start_recommend(resp.state).module
    ELSE resp.choice

\* the quick replacement for story_engine: anki_drill if there are words weak
\* in production, else pronunciation_session if there are words weak in
\* pronunciation, else rest
QuickModule(st) ==
    IF st.low_production_words # <<>> THEN "anki_drill"
    ELSE IF st.low_pronunciation_words # <<>> THEN "pronunciation_session"
    ELSE "rest"

\* the module of the row the last next_activity call stored, if it stored one
PersistedModule(resp) ==
    IF Len(decisions) > resp.rowsBefore
    THEN decisions[Len(decisions)].recommended_module
    ELSE resp.recommendedModule

\* C13: with fewer than 5 minutes available the module returned and the
\* module persisted are never story_engine: a story_engine choice is replaced
\* by the quick module, any other choice is kept; from 5 minutes on the
\* choice is kept
C13_NoStoryUnderFiveMinutes ==
    lastResponse.kind = "next_activity" =>
        LET st     == lastResponse.state
            chosen == ChosenModule(lastResponse)
        IN  /\ PersistedModule(lastResponse) = lastResponse.recommendedModule
            /\ st.estimated_available_minutes < 5 =>
                   /\ lastResponse.recommendedModule # "story_engine"
                   /\ lastResponse.recommendedModule =
                          IF chosen = "story_engine" THEN QuickModule(st)
                          ELSE chosen
            /\ st.estimated_available_minutes >= 5 =>
                   lastResponse.recommendedModule = chosen

\* C13 witness: the model chose story_engine for a user with three minutes
\* and only words weak in pronunciation; pronunciation_session was returned
\* and stored
C13_Witness ==
    /\ lastResponse.kind = "next_activity"
    /\ lastResponse.state.estimated_available_minutes < 5
    /\ ChosenModule(lastResponse) = "story_engine"
    /\ lastResponse.state.low_production_words = <<>>
    /\ lastResponse.recommendedModule = "pronunciation_session"
    /\ Len(decisions) > lastResponse.rowsBefore
    /\ decisions[Len(decisions)].recommended_module = "pronunciation_session"

(* SpecColdStart: cold_start_recommend applied to user states on both      *)
(* sides of every rule's threshold, with any number of rules firing at     *)
(* once.                                                                   *)

ColdStartStates ==
    { UserState(10, prod, pron, lowProd, lowPron, tag, tagScore, cog, 15) :
        prod \in {production_score_threshold - 1, production_score_threshold},
        pron \in {pronunciation_score_threshold - 1,
                  pronunciation_score_threshold},
        lowProd \in {<<>>, <<"w1">>},
        lowPron \in {<<>>, <<"w2">>},
        tag \in {None, "subjunctive"},
        tagScore \in {grammar_mastery_threshold - 1, grammar_mastery_threshold},
        cog \in {85, 86} }

\* one call of cold_start_recommend; the response keeps the state it was
\* called with
cold_start_call(st) ==
    /\ lastResponse' = [ kind   |-> "cold_start_recommend",
                         state  |-> st,
                         result |-> cold_start_recommend(st) ]
    /\ UNCHANGED <<decisions, rewards, rlSessions, now, bandit, clVars>>

InitColdStart == InitThreads

NextColdStart == \E st \in ColdStartStates : cold_start_call(st)

SpecColdStart == InitColdStart /\ [][NextColdStart]_vars

\* the rules in priority order, each with its module
ColdStartRules == <<"conjugation_drill", "pronunciation_session",
                    "grammar_lesson", "rest">>

\* whether the condition of rule i holds in state st
RuleHolds(i, st) ==
    CASE i = 1 -> \/ st.avg_production_score < production_score_threshold
                  \/ st.low_production_words # <<>>
      [] i = 2 -> \/ st.avg_pronunciation_score < pronunciation_score_threshold
                  \/ st.low_pronunciation_words # <<>>
      [] i = 3 -> /\ st.weakest_concept_tag # None
                  /\ st.weakest_concept_score < grammar_mastery_threshold
      [] i = 4 -> st.cognitive_load_last_session > 85

PairLoads == {NoneLoad, 50, 70, 71}

PairHistories ==
    { <<>>,
      <<"story_engine", "story_engine", "story_engine">>,
      <<"grammar_lesson", "story_engine", "story_engine">> }

PairDecisions ==
    { routing_decision_row(1, "u1", run_model(module), to_snapshot(st),
                           "linucb", 0) :
        module \in BanditChoices, st \in UserStates }

\* the two calls of compute_reward; a call that raises has no total
reward_pair(decision, post_state, load, last_n_modules) ==
    /\ lastResponse' =
           [ kind      |-> "compute_reward",
             decision  |-> decision,
             post      |-> post_state,
             load      |-> load,
             history   |-> last_n_modules,
             completed_raises |-> compute_reward_raises(TRUE, load),
             completed_total  |->
                 IF compute_reward_raises(TRUE, load) THEN 0
                 ELSE compute_reward(decision, post_state, TRUE, load,
                                     last_n_modules),
             abandoned_raises |-> compute_reward_raises(FALSE, load),
             abandoned_total  |->
                 IF compute_reward_raises(FALSE, load) THEN 0
                 ELSE compute_reward(decision, post_state, FALSE, load,
                                     last_n_modules) ]
    /\ UNCHANGED <<decisions, rewards, rlSessions, now, bandit, clVars>>

InitRewardPair == InitThreads

NextRewardPair ==
    \E decision \in PairDecisions, post \in PostStates, load \in PairLoads,
       history \in PairHistories :
        reward_pair(decision, post, load, history)

SpecRewardPair == InitRewardPair /\ [][NextRewardPair]_vars

\* C15 as stated: of two reward computations that differ only in
\* session_completed, the completed one's total is greater by exactly 1.0
\* (rewards are counted in halves)
C15_CompletedAddsOne ==
    (/\ lastResponse.kind = "compute_reward"
     /\ ~lastResponse.completed_raises /\ ~lastResponse.abandoned_raises)
        => lastResponse.completed_total - lastResponse.abandoned_total = 2

\* C15: of two reward computations that differ only in session_completed,
\* the completed one's total is greater by exactly 1.0 when the post-session
\* cognitive load is at most 0.7 and by exactly 2.0 when it is above 0.7;
\* when the load is missing the completed one has a total and the other
\* raises
C15_CompletedDifference ==
    lastResponse.kind = "compute_reward" =>
        /\ ~lastResponse.completed_raises
        /\ lastResponse.abandoned_raises <=> lastResponse.load = NoneLoad
        /\ ~lastResponse.abandoned_raises =>
               lastResponse.completed_total - lastResponse.abandoned_total
                   = IF lastResponse.load > 70 THEN 4 ELSE 2

\* C15 witness: an abandoned session with load above 0.7, improved scores
\* and a monotonous history, two whole points below the completed one
C15_Witness ==
    /\ lastResponse.kind = "compute_reward"
    /\ lastResponse.load = 71
    /\ Len(lastResponse.history) = 3
    /\ lastResponse.post.avg_recall > 50
    /\ lastResponse.completed_total - lastResponse.abandoned_total = 4

-----------------------------------------------------------------------------
(* The router process: one event loop, the LinUCB singleton                *)
(*                                                                         *)
(* next_activity, observe_reward and train are `async def` handlers that   *)
(* never await, so each runs from its first statement to its last before   *)
(* the event loop starts another.  The statements of predict, update and   *)
(* _train_bandit are separate steps here so that what a handler could see  *)
(* in between is part of the model.                                        *)

MaxOnline == 2          \* online update calls
MaxTrains == 1          \* retrains through the /train route
MaxSamples == 2         \* training samples of a retrain

\* LinUCBModel has no lock attribute: predict and update acquire nothing
bandit_mutex_holder == None

\* handlers started while another is still running (a thread pool)
loop_is_free_always == TRUE

\* the event loop starts a handler only when none is running
loop_is_free == loopTask = None

otherVars == <<decisions, rewards, rlSessions, now, estVars, clStore, clHist,
               ppo_agent, cache, platVars>>

\* a predict that starts whatever else is running
predict_begin_any_time(r) ==
    /\ task[r] = IdleTask
    /\ loopTask' = r
    /\ task' = [task EXCEPT ![r] = [op |-> "predict", a |-> 1,
                                    torn |-> FALSE, mixed |-> FALSE,
                                    gen |-> bandit.gen["A_inv"]]]
    /\ lastResponse' = NoResponse
    /\ UNCHANGED <<bandit, artifact, otherVars>>

\* next_activity -> _run_bandit -> predict_with_probs -> predict: start
predict_begin(r) ==
    /\ loop_is_free
    /\ task[r] = IdleTask
    /\ loopTask' = r
    /\ task' = [task EXCEPT ![r] = [op |-> "predict", a |-> 1,
                                    torn |-> FALSE, mixed |-> FALSE,
                                    gen |-> bandit.gen["A_inv"]]]
    /\ lastResponse' = NoResponse
    /\ UNCHANGED <<bandit, artifact, otherVars>>

\* predict: one turn of `for a in range(n_actions)`, reading A_inv[a] and
\* b[a]; after the last arm the handler returns
predict_arm(r) ==
    /\ task[r].op = "predict"
    /\ LET t     == task[r]
           arm   == actions[t.a]
           torn  == \/ t.torn
                    \/ bandit.A_inv[arm] # bandit.b[arm]
           mixed == \/ t.mixed
                    \/ bandit.gen["A_inv"] # t.gen
                    \/ bandit.gen["b"] # t.gen
       IN  IF t.a < NUM_ACTIONS
           THEN /\ task' = [task EXCEPT ![r] = [t EXCEPT !.a = @ + 1,
                                                         !.torn = torn,
                                                         !.mixed = mixed]]
                /\ UNCHANGED <<loopTask, lastResponse, platVars>>
           ELSE /\ task' = [task EXCEPT ![r] = IdleTask]
                /\ loopTask' = None
                /\ lastResponse' = [ kind |-> "predict", torn |-> torn,
                                     mixed |-> mixed, gen |-> t.gen ]
    /\ UNCHANGED <<bandit, artifact, otherVars>>

\* observe_reward -> _online_update_bandit -> update: start
update_begin(r, action) ==
    /\ loop_is_free
    /\ task[r] = IdleTask
    /\ bandit.total_updates < MaxOnline + MaxSamples
    /\ bandit.calls < MaxOnline + MaxSamples
    /\ loopTask' = r
    /\ task' = [task EXCEPT ![r] = [op |-> "update", action |-> action,
                                    pc |-> "A"]]
    /\ lastResponse' = NoResponse
    /\ UNCHANGED <<bandit, artifact, otherVars>>

\* update: the next of its five assignments; after arm_pulls the handler
\* returns
update_step(r) ==
    /\ task[r].op = "update"
    /\ LET t == task[r]
           a == t.action
       IN  CASE t.pc = "A" ->
                  /\ bandit' = [bandit EXCEPT !.A[a] = @ + 1]
                  /\ task' = [task EXCEPT ![r].pc = "b"]
                  /\ UNCHANGED <<loopTask, lastResponse, platVars>>
             [] t.pc = "b" ->
                  /\ bandit' = [bandit EXCEPT !.b[a] = @ + 1]
                  /\ task' = [task EXCEPT ![r].pc = "A_inv"]
                  /\ UNCHANGED <<loopTask, lastResponse, platVars>>
             [] t.pc = "A_inv" ->
                  /\ bandit' = [bandit EXCEPT !.A_inv[a] = @ + 1]
                  /\ task' = [task EXCEPT ![r].pc = "total_updates"]
                  /\ UNCHANGED <<loopTask, lastResponse, platVars>>
             [] t.pc = "total_updates" ->
                  /\ bandit' = [bandit EXCEPT !.total_updates = @ + 1]
                  /\ task' = [task EXCEPT ![r].pc = "arm_pulls"]
                  /\ UNCHANGED <<loopTask, lastResponse, platVars>>
             [] t.pc = "arm_pulls" ->
                  /\ bandit' = [bandit EXCEPT !.arm_pulls[a] = @ + 1,
                                              !.calls = @ + 1]
                  /\ task' = [task EXCEPT ![r] = IdleTask]
                  /\ loopTask' = None
                  /\ lastResponse' = [kind |-> "update", arm |-> a]
    /\ UNCHANGED <<artifact, otherVars>>

\* fresh_model = LinUCBModel(); fresh_model.batch_update(...) with n samples
\* of one arm, to be installed as retrain number g
fresh_model(arm, n, g) ==
    [ A             |-> [a \in Arms |-> IF a = arm THEN n ELSE 0],
      b             |-> [a \in Arms |-> IF a = arm THEN n ELSE 0],
      A_inv         |-> [a \in Arms |-> IF a = arm THEN n ELSE 0],
      total_updates |-> n,
      arm_pulls     |-> [a \in Arms |-> IF a = arm THEN n ELSE 0],
      gen           |-> [f \in ModelFields |-> g],
      calls         |-> n ]

\* what LinUCBModel.save writes for model m
saved_state(m) ==
    [ kind |-> "complete",
      A |-> m.A, b |-> m.b, A_inv |-> m.A_inv,
      total_updates |-> m.total_updates, arm_pulls |-> m.arm_pulls ]

\* POST /ml/router/train -> _train_bandit: the fresh model is built
train_begin(r, arm, n) ==
    /\ loop_is_free
    /\ task[r] = IdleTask
    /\ bandit.gen["arm_pulls"] < MaxTrains
    /\ loopTask' = r
    /\ task' = [task EXCEPT ![r] =
                   [op |-> "train", pc |-> "A",
                    fresh |-> fresh_model(arm, n, bandit.gen["arm_pulls"] + 1)]]
    /\ lastResponse' = NoResponse
    /\ UNCHANGED <<bandit, artifact, otherVars>>

\* _train_bandit: the next of the five assignments to bandit_model, then
\* bandit_model.save(), after which the handler returns
train_step(r) ==
    /\ task[r].op = "train"
    /\ LET t == task[r]
           f == t.fresh
       IN  CASE t.pc = "A" ->
                  /\ bandit' = [bandit EXCEPT !.A = f.A,
                                              !.gen["A"] = f.gen["A"]]
                  /\ task' = [task EXCEPT ![r].pc = "b"]
                  /\ UNCHANGED <<loopTask, lastResponse, artifact, platVars>>
             [] t.pc = "b" ->
                  /\ bandit' = [bandit EXCEPT !.b = f.b,
                                              !.gen["b"] = f.gen["b"]]
                  /\ task' = [task EXCEPT ![r].pc = "A_inv"]
                  /\ UNCHANGED <<loopTask, lastResponse, artifact, platVars>>
             [] t.pc = "A_inv" ->
                  /\ bandit' = [bandit EXCEPT !.A_inv = f.A_inv,
                                              !.gen["A_inv"] = f.gen["A_inv"]]
                  /\ task' = [task EXCEPT ![r].pc = "total_updates"]
                  /\ UNCHANGED <<loopTask, lastResponse, artifact, platVars>>
             [] t.pc = "total_updates" ->
                  /\ bandit' = [bandit EXCEPT
                                   !.total_updates = f.total_updates,
                                   !.gen["total_updates"] =
                                        f.gen["total_updates"]]
                  /\ task' = [task EXCEPT ![r].pc = "arm_pulls"]
                  /\ UNCHANGED <<loopTask, lastResponse, artifact, platVars>>
             [] t.pc = "arm_pulls" ->
                  /\ bandit' = [bandit EXCEPT
                                   !.arm_pulls = f.arm_pulls,
                                   !.gen["arm_pulls"] = f.gen["arm_pulls"],
                                   !.calls = f.calls]
                  /\ task' = [task EXCEPT ![r].pc = "save"]
                  /\ UNCHANGED <<loopTask, lastResponse, artifact, platVars>>
             [] t.pc = "save" ->
                  /\ artifact' = saved_state(bandit)
                  /\ task' = [task EXCEPT ![r] = IdleTask]
                  /\ loopTask' = None
                  /\ lastResponse' = [kind |-> "train"]
                  /\ UNCHANGED bandit
    /\ UNCHANGED otherVars

\* the Celery task retrain_rl_router: _train_bandit in the worker process,
\* on the worker's own bandit_model; of the router process it touches only
\* the file
celery_retrain(arm, n) ==
    /\ artifact' = saved_state(fresh_model(arm, n, 1))
    /\ artifact' # artifact
    /\ UNCHANGED <<loopTask, task, bandit, lastResponse, otherVars>>

InitLoop == InitThreads

TrainArms == {"story_engine"}
UpdateArms == {"story_engine", "rest"}

NextLoop ==
    \/ \E r \in Requests : predict_begin(r)
    \/ \E r \in Requests : predict_arm(r)
    \/ \E r \in Requests, action \in UpdateArms : update_begin(r, action)
    \/ \E r \in Requests : update_step(r)
    \/ \E r \in Requests, arm \in TrainArms, n \in 1 .. MaxSamples :
           train_begin(r, arm, n)
    \/ \E r \in Requests : train_step(r)
    \/ \E arm \in TrainArms, n \in 1 .. MaxSamples : celery_retrain(arm, n)

SpecLoop == InitLoop /\ [][NextLoop]_vars

\* the sum of a pull counter over the arms
RECURSIVE SumPulls(_, _)
SumPulls(pulls, k) ==
    IF k = 0 THEN 0 ELSE pulls[actions[k]] + SumPulls(pulls, k - 1)

\* the requests whose handler is running
Running == {r \in Requests : task[r] # IdleTask}

\* C16 as stated: predict and update exclude each other because both hold
\* the model's one mutex while they run
C16_UnderOneMutex ==
    \A r \in Requests :
        task[r].op \in {"predict", "update"} => bandit_mutex_holder = r

\* C16: predict and update never run at the same time, because a handler
\* runs to its end on the event loop before the next one starts; no predict
\* reads an arm whose A_inv and b come from different updates; no update is
\* lost: between handlers total_updates equals the number of update calls
\* and the sum of the per-arm pull counters, and every arm's A, b and A_inv
\* have absorbed as many updates as the arm was pulled
C16_PredictUpdateExclusive ==
    /\ Cardinality(Running) <= 1
    /\ lastResponse.kind = "predict" => ~lastResponse.torn
    /\ Running = {} =>
          /\ bandit.total_updates = bandit.calls
          /\ bandit.total_updates = SumPulls(bandit.arm_pulls, NUM_ACTIONS)
          /\ \A a \in Arms :
                /\ bandit.A[a] = bandit.arm_pulls[a]
                /\ bandit.b[a] = bandit.arm_pulls[a]
                /\ bandit.A_inv[a] = bandit.arm_pulls[a]

\* C16 witness: a predict returned after two updates of different arms had
\* been applied
C16_Witness ==
    /\ lastResponse.kind = "predict"
    /\ bandit.total_updates = 2
    /\ bandit.arm_pulls["story_engine"] = 1
    /\ bandit.arm_pulls["rest"] = 1
    /\ bandit.gen["A"] = 0

\* C17 as stated: the live model is replaced by one atomic swap, so its
\* fields never come from different retrains
C17_AtomicSwap ==
    \A f, g \in ModelFields : bandit.gen[f] = bandit.gen[g]

\* C17: every predict sees the complete old or the complete new model: all
\* the arms it read were installed by the same retrain and no arm was read
\* half updated; the fields of the live model come from different retrains
\* only while the /train handler is running and no other handler is
C17_PredictSeesWholeModel ==
    /\ lastResponse.kind = "predict" =>
           ~lastResponse.mixed /\ ~lastResponse.torn
    /\ (\E f, g \in ModelFields : bandit.gen[f] # bandit.gen[g]) =>
           \E r \in Requests : task[r].op = "train" /\ Running = {r}

\* C17 witness: a predict that began after a retrain had replaced a model
\* with online updates returned the arms of the new model
C17_Witness ==
    /\ lastResponse.kind = "predict"
    /\ lastResponse.gen = 1
    /\ ~lastResponse.mixed
    /\ bandit.gen["arm_pulls"] = 1
    /\ bandit.arm_pulls["rest"] = 0
    /\ artifact = saved_state(bandit)

-----------------------------------------------------------------------------
(* The LinUCB artifact: LinUCBModel.save and LinUCBModel.load              *)
(*                                                                         *)
(* save is joblib.dump(state, save_path) on the model path itself: the     *)
(* file is opened for writing, which empties it, and then filled.  The     *)
(* router process saves in _train_bandit and on shutdown and loads once,   *)
(* at start-up; the Celery worker saves from its own process.              *)

\* the file while joblib.dump is filling it: what was there before, what
\* is being written, and who writes
being_written(writer, state) ==
    [ kind |-> "partial", writer |-> writer, next |-> state,
      prev |-> IF artifact.kind = "partial" THEN [kind |-> "partial"]
               ELSE artifact ]

\* nobody is in the middle of writing the file
no_writer == artifact.kind = "partial" => artifact.writer = "dead"

\* LinUCBModel.load on file f into model m: the model afterwards
load(m, f) ==
    IF f.kind = "complete"
    THEN [m EXCEPT !.A = f.A, !.b = f.b, !.A_inv = f.A_inv,
                   !.total_updates = f.total_updates,
                   !.arm_pulls = f.arm_pulls,
                   !.calls = f.total_updates]
    ELSE m

\* LinUCBModel.load: its return value
load_returns(f) == f.kind = "complete"

\* observe_reward's online update of the live model, as one handler
online_update(action) ==
    /\ loop_is_free
    /\ bandit.total_updates < MaxOnline
    /\ bandit' = bandit_update(bandit, action)
    /\ lastResponse' = NoResponse
    /\ UNCHANGED <<loopTask, task, artifact, otherVars>>

\* bandit_model.save(): the state dict is built and the file is opened
save_open(r) ==
    /\ loop_is_free
    /\ task[r] = IdleTask
    /\ bandit.total_updates > 0
    /\ no_writer
    /\ artifact # saved_state(bandit)
    /\ loopTask' = r
    /\ task' = [task EXCEPT ![r] = [op |-> "save"]]
    /\ artifact' = being_written(r, saved_state(bandit))
    /\ lastResponse' = NoResponse
    /\ UNCHANGED <<bandit, otherVars>>

\* bandit_model.save(): joblib.dump has written everything and returns
save_dump(r) ==
    /\ task[r].op = "save"
    /\ artifact' = artifact.next
    /\ task' = [task EXCEPT ![r] = IdleTask]
    /\ loopTask' = None
    /\ lastResponse' = NoResponse
    /\ UNCHANGED <<bandit, otherVars>>

\* the Celery worker's _train_bandit reaches bandit_model.save()
celery_save_open(arm, n) ==
    /\ no_writer
    /\ artifact # saved_state(fresh_model(arm, n, 0))
    /\ artifact' = being_written("celery", saved_state(fresh_model(arm, n, 0)))
    /\ lastResponse' = NoResponse
    /\ UNCHANGED <<loopTask, task, bandit, otherVars>>

\* the Celery worker's joblib.dump returns
celery_save_dump ==
    /\ artifact.kind = "partial"
    /\ artifact.writer = "celery"
    /\ artifact' = artifact.next
    /\ lastResponse' = NoResponse
    /\ UNCHANGED <<loopTask, task, bandit, otherVars>>

\* the router process ends, killed in the middle of a handler or not, and a
\* new one starts: lifespan calls bandit_model.load() on a new LinUCBModel
restart ==
    /\ artifact' = IF artifact.kind = "partial" /\ artifact.writer \in Requests
                   THEN [artifact EXCEPT !.writer = "dead"]
                   ELSE artifact
    /\ bandit' = load(LinUCBModel, artifact)
    /\ task' = [r \in Requests |-> IdleTask]
    /\ loopTask' = None
    /\ lastResponse' = [ kind   |-> "load",
                         read   |-> artifact,
                         loaded |-> load_returns(artifact) ]
    /\ UNCHANGED otherVars

InitArtifact == InitThreads

NextArtifact ==
    \/ \E action \in UpdateArms : online_update(action)
    \/ \E r \in Requests : save_open(r)
    \/ \E r \in Requests : save_dump(r)
    \/ \E arm \in TrainArms, n \in 1 .. MaxSamples : celery_save_open(arm, n)
    \/ celery_save_dump
    \/ restart

SpecArtifact == InitArtifact /\ [][NextArtifact]_vars

\* C18: saving is atomic: a load that follows an interrupted save, or that
\* runs while a save is under way, reads the complete previous artifact or
\* the complete new one: where an artifact had been saved before, the load
\* succeeds and the model is the one of that artifact or of the new one
C18_LoadReadsWholeArtifact ==
    (/\ lastResponse.kind = "load"
     /\ lastResponse.read.kind = "partial"
     /\ lastResponse.read.prev.kind = "complete") =>
        /\ lastResponse.loaded
        /\ saved_state(bandit) \in {lastResponse.read.prev,
                                    lastResponse.read.next}

-----------------------------------------------------------------------------
(* The PPO artifact: PPOAgent.load and the router's use of the agent       *)

\* checkpoints that may lie at settings.paths.ppo_model_path: of the
\* router's dimensions, with another state_dim, with more and with fewer
\* actions
Checkpoints ==
    { [state_dim |-> feature_dim,     n_actions |-> NUM_ACTIONS],
      [state_dim |-> feature_dim - 1, n_actions |-> NUM_ACTIONS],
      [state_dim |-> feature_dim,     n_actions |-> NUM_ACTIONS + 1],
      [state_dim |-> feature_dim,     n_actions |-> NUM_ACTIONS - 1] }

\* PPOAgent.load with a file present: the network is rebuilt with the
\* checkpoint's own dimensions, nothing is compared with the router's;
\* weights_ok is FALSE when load_state_dict raises, which happens after the
\* network has been replaced
ppo_load(checkpoint, weights_ok) ==
    /\ ppo_agent' = [ state_dim |-> checkpoint.state_dim,
                      n_actions |-> checkpoint.n_actions,
                      is_loaded |-> IF weights_ok THEN TRUE
                                    ELSE ppo_agent.is_loaded ]
    /\ ppo_agent' # ppo_agent
    /\ lastResponse' = [ kind |-> "ppo_load", checkpoint |-> checkpoint,
                         returned |-> weights_ok ]
    /\ UNCHANGED <<decisions, rewards, rlSessions, now, bandit, loopTask,
                   task, artifact, cache, estVars, clStore, clHist, platVars>>

\* _run_ppo raises: the state vector does not fit the network's input, or
\* the network's action index is not one of ACTIONS
run_ppo_raises(index) ==
    \/ ppo_agent.state_dim # feature_dim
    \/ index > NUM_ACTIONS

\* POST /ml/router/next-activity with the agent as it is; index is the
\* action the network picks, counted from 1
next_activity_with_agent(u, st, other_sessions, index) ==
    LET algorithm == select_algorithm(st, ppo_agent.is_loaded, TRUE,
                                      other_sessions + Len(rlSessions))
    IN  /\ index <= ppo_agent.n_actions
        /\ Len(decisions) < MaxRouted
        /\ IF algorithm = "ppo" /\ run_ppo_raises(index)
           THEN /\ lastResponse' = [ kind      |-> "next_activity_failed",
                                     status    |-> 500,
                                     algorithm |-> algorithm,
                                     state     |-> st ]
                /\ UNCHANGED <<decisions, rewards, rlSessions, now, bandit,
                               clVars>>
           ELSE next_activity(u, st, ppo_agent.is_loaded, TRUE,
                              other_sessions, actions[Min(index, NUM_ACTIONS)],
                              "ok")

InitPpo == InitThreads

NextPpo ==
    \/ \E checkpoint \in Checkpoints, weights_ok \in BOOLEAN :
           ppo_load(checkpoint, weights_ok)
    \/ \E u \in UserIds, st \in RewardUserStates,
          other \in {0, min_sessions_for_ppo},
          index \in 1 .. NUM_ACTIONS + 1 :
           next_activity_with_agent(u, st, other, index)

SpecPpo == InitPpo /\ [][NextPpo]_vars

\* the agent's network has the router's dimensions
NetworkFitsRouter ==
    /\ ppo_agent.state_dim = feature_dim
    /\ ppo_agent.n_actions = NUM_ACTIONS

\* C19: a PPO artifact whose state_dim or n_actions differs from the
\* router's is not loaded, so the router never selects PPO while the
\* agent's network has other dimensions than its own
C19_NoMismatchedPpo ==
    (/\ lastResponse.kind \in {"next_activity", "next_activity_failed"}
     /\ lastResponse.algorithm = "ppo") => NetworkFitsRouter

-----------------------------------------------------------------------------
(* The Celery training tasks and the prediction cache (ml/shared)          *)

\* _TASK_SERVICE_MAP, for two of the tasks
TASK_SERVICE_MAP ==
    [ retrain_churn |-> "churn", retrain_rl_router |-> "rl_router" ]

TaskNames == DOMAIN TASK_SERVICE_MAP

CacheUsers == {"u1", "u2"}

\* PredictionCache._key: ml:pred:<service>:<endpoint>:<user_id>
cache_key(service, user) == [service |-> service, user |-> user]

\* the methods class PredictionCache defines
PredictionCacheMethods ==
    { "_get_client", "_key", "_scan_pattern", "get", "set", "invalidate",
      "invalidate_user", "health" }

\* _flush_service_cache: the cache afterwards.  Its first statement calls
\* prediction_cache._redis(); when PredictionCache has no such method the
\* AttributeError is caught by the function's own except and nothing is
\* deleted; redis_up is FALSE when the client is None
flush_service_cache(service, redis_up, c) ==
    IF "_redis" \notin PredictionCacheMethods THEN c
    ELSE IF ~redis_up THEN c
    ELSE {k \in c : k.service # service}

\* prediction_cache.set by a prediction endpoint of a service
cache_set(service, user) ==
    /\ cache_key(service, user) \notin cache
    /\ cache' = cache \cup {cache_key(service, user)}
    /\ lastResponse' = NoResponse
    /\ UNCHANGED <<decisions, rewards, rlSessions, now, bandit, loopTask,
                   task, artifact, ppo_agent, estVars, clStore, clHist,
                   platVars>>

\* the body of a training task returns in worker w: _run_with_retry hands
\* back the trainer's result, which either reports a trained and saved
\* artifact or reports that nothing was trained; Celery takes both as
\* success
retrain_returns(w, name, trained) ==
    /\ task[w] = IdleTask
    /\ task' = [task EXCEPT ![w] =
                   [ op |-> "retrain", name |-> name, trained |-> trained,
                     existed |-> {k \in cache :
                                     k.service = TASK_SERVICE_MAP[name]} ]]
    /\ lastResponse' = NoResponse
    /\ UNCHANGED <<decisions, rewards, rlSessions, now, bandit, loopTask,
                   artifact, ppo_agent, cache, estVars, clStore, clHist,
                   platVars>>

\* _MLTrainTask.on_success in worker w
on_success(w, redis_up) ==
    /\ task[w].op = "retrain"
    /\ cache' = flush_service_cache(TASK_SERVICE_MAP[task[w].name],
                                    redis_up, cache)
    /\ task' = [task EXCEPT ![w] = IdleTask]
    /\ lastResponse' = [ kind    |-> "on_success",
                         name    |-> task[w].name,
                         trained |-> task[w].trained,
                         existed |-> task[w].existed,
                         redis_up |-> redis_up ]
    /\ UNCHANGED <<decisions, rewards, rlSessions, now, bandit, loopTask,
                   artifact, ppo_agent, estVars, clStore, clHist, platVars>>

InitRetrain == InitThreads

NextRetrain ==
    \/ \E service \in {"churn", "rl_router"}, user \in CacheUsers :
           cache_set(service, user)
    \/ \E w \in Requests, name \in TaskNames, trained \in BOOLEAN :
           retrain_returns(w, name, trained)
    \/ \E w \in Requests, redis_up \in BOOLEAN : on_success(w, redis_up)

SpecRetrain == InitRetrain /\ [][NextRetrain]_vars

\* C20: when a retrain task of a service has succeeded, every cache key of
\* that service that existed when the new artifact was published is gone
\* once the success handling has finished (looked at where Redis answers)
C20_FlushedAfterPublish ==
    (/\ lastResponse.kind = "on_success"
     /\ lastResponse.trained
     /\ lastResponse.redis_up) =>
        \A k \in lastResponse.existed : k \notin cache

-----------------------------------------------------------------------------
(* One Celery training task: retrain_rl_router under _run_with_retry       *)
(*                                                                         *)
(* bandit is here the bandit_model of the worker process and artifact the  *)
(* file it saves.  Task.retry(exc=exc) raises Retry while retries are      *)
(* left and re-raises exc itself once request.retries has reached          *)
(* max_retries.                                                            *)

max_retries == 3
first_countdown == 60

\* _run_with_retry: countdown = 60 * (2 ** retries)
countdown(retries) == first_countdown * (2 ^ retries)

\* Task.retry that gives up one retry early
retries_exhausted_early(retries) == retries + 1 >= max_retries

\* Task.retry: no retry is left for a task that has been retried `retries`
\* times
retries_exhausted(retries) == retries + 1 > max_retries

\* the algorithm argument: "auto" is the task's default, which is what the
\* beat schedule runs
Algorithms == {"auto", "bandit", "both"}

\* what fetch_training_data gives _train_bandit: it raises, it has no rows,
\* or it has n usable rows
TrainingData ==
    {[kind |-> "raises", n |-> 0], [kind |-> "none", n |-> 0]}
        \cup {[kind |-> "rows", n |-> n] : n \in 1 .. MaxSamples}

\* train_router_model(algorithm) in the worker: the model and the file
\* afterwards, whether _train_bandit trained and saved, and whether the call
\* raised; ppo is "raises" when _train_ppo raises and "returns" when it
\* returns without training
train_router_model(algorithm, data, ppo) ==
    LET runs_bandit == algorithm \in {"bandit", "both"}
        runs_ppo    == algorithm \in {"ppo", "both"}
        trains      == runs_bandit /\ data.kind = "rows"
        fresh       == fresh_model("story_engine", data.n, 0)
        bandit_raises == runs_bandit /\ data.kind = "raises"
    IN  [ bandit   |-> IF trains THEN fresh ELSE bandit,
          artifact |-> IF trains THEN saved_state(fresh) ELSE artifact,
          trained  |-> trains,
          raised   |-> \/ bandit_raises
                       \/ (~bandit_raises /\ runs_ppo /\ ppo = "raises") ]

\* apply_async / the beat schedule puts the task on the queue of worker w
enqueue(w, algorithm) ==
    /\ task[w] = IdleTask
    /\ task' = [task EXCEPT ![w] =
                   [ op |-> "retrain_rl_router", algorithm |-> algorithm,
                     retries |-> 0, delays |-> <<>>,
                     artifact_before |-> artifact,
                     bandit_before |-> bandit ]]
    /\ lastResponse' = NoResponse
    /\ UNCHANGED <<decisions, rewards, rlSessions, now, bandit, loopTask,
                   artifact, ppo_agent, cache, estVars, clStore, clHist,
                   platVars>>

\* one attempt of the task in worker w, to its end: the body under
\* _run_with_retry, then a retry, on_failure or on_success
attempt(w, data, ppo) ==
    /\ task[w].op = "retrain_rl_router"
    /\ LET t == task[w]
           r == train_router_model(t.algorithm, data, ppo)
           done(state) ==
               [ kind      |-> "task_done",
                 state     |-> state,
                 algorithm |-> t.algorithm,
                 retries   |-> t.retries,
                 delays    |-> t.delays,
                 trained   |-> r.trained,
                 artifact_before |-> t.artifact_before,
                 bandit_before   |-> t.bandit_before ]
       IN  /\ bandit' = r.bandit
           /\ artifact' = r.artifact
           /\ IF ~r.raised
              THEN /\ task' = [task EXCEPT ![w] = IdleTask]
                   /\ cache' = flush_service_cache("rl_router", TRUE, cache)
                   /\ lastResponse' = done("SUCCESS")
              ELSE IF retries_exhausted(t.retries)
              THEN /\ task' = [task EXCEPT ![w] = IdleTask]
                   /\ cache' = cache
                   /\ lastResponse' = done("FAILURE")
              ELSE /\ task' = [task EXCEPT ![w] =
                                  [t EXCEPT !.retries = @ + 1,
                                            !.delays = Append(@,
                                                countdown(t.retries))]]
                   /\ cache' = cache
                   /\ lastResponse' = NoResponse
    /\ UNCHANGED <<decisions, rewards, rlSessions, now, loopTask, ppo_agent,
                   estVars, clStore, clHist, platVars>>

InitTask == InitThreads

NextTask ==
    \/ \E w \in Requests, algorithm \in Algorithms : enqueue(w, algorithm)
    \/ \E w \in Requests, data \in TrainingData, ppo \in {"returns", "raises"} :
           attempt(w, data, ppo)

SpecTask == InitTask /\ [][NextTask]_vars

\* C21: a retrain task whose trainer raises is retried at most 3 times,
\* after 60 s, 120 s and 240 s, and gives up when the third retry fails
C21_ThreeRetriesBackoff ==
    /\ \A w \in Requests :
          task[w].op = "retrain_rl_router" =>
              /\ task[w].retries <= 3
              /\ task[w].delays = SubSeq(<<60, 120, 240>>, 1, task[w].retries)
    /\ (lastResponse.kind = "task_done" /\ lastResponse.state = "FAILURE") =>
          /\ lastResponse.retries = 3
          /\ lastResponse.delays = <<60, 120, 240>>

\* C21 witness: a task failed for good after its third retry
C21_Witness ==
    /\ lastResponse.kind = "task_done"
    /\ lastResponse.state = "FAILURE"
    /\ lastResponse.delays = <<60, 120, 240>>

\* C22: when a retrain task has failed for good, the saved artifact and the
\* model in memory are those from before the task started
C22_FailureLeavesArtifact ==
    (lastResponse.kind = "task_done" /\ lastResponse.state = "FAILURE") =>
        /\ artifact = lastResponse.artifact_before
        /\ bandit = lastResponse.bandit_before

\* C30: a run of the scheduled retrain_rl_router task, which has the default
\* arguments, that ends in success has retrained the bandit and saved the
\* artifact
C30_ScheduledRunTrains ==
    (/\ lastResponse.kind = "task_done"
     /\ lastResponse.state = "SUCCESS"
     /\ lastResponse.algorithm = "auto") =>
        /\ lastResponse.trained
        /\ artifact = saved_state(bandit)

-----------------------------------------------------------------------------
(* The shared prediction cache (ml.shared.cache) and its callers           *)
(*                                                                         *)
(* A text is a sequence of tokens; a user id is a text of one-character    *)
(* tokens.  cache holds the keys stored in Redis, each the text _key       *)
(* builds.                                                                 *)

U1  == <<"u", "1">>
U10 == <<"u", "1", "0">>
U2  == <<"u", "2">>
KeyUsers == {U1, U10, U2}

IsPrefix(p, t) == Len(p) <= Len(t) /\ SubSeq(t, 1, Len(p)) = p

\* PredictionCache._key: ml:pred:<service>:<endpoint>:<user_id>[:<extra>]
_key(service, endpoint, user_id, extra) ==
    LET base == <<"ml:pred:", service, ":", endpoint, ":">> \o user_id
    IN  IF extra # <<>> THEN base \o <<":">> \o extra ELSE base

\* the user segment of a key: what follows the endpoint, up to the next colon
user_segment(key) ==
    LET rest == SubSeq(key, 6, Len(key))
        stops == {i \in 1 .. Len(rest) : rest[i] = ":"}
    IN  IF stops = {} THEN rest
        ELSE SubSeq(rest, 1, (CHOOSE i \in stops : \A j \in stops : i <= j) - 1)

\* PredictionCache._scan_pattern, as Redis matches it:
\* ml:pred:*:*:<user_id>*, where * stands for any text
scan_matches(user_id, key) ==
    /\ key[1] = "ml:pred:"
    /\ \E i, j \in 2 .. Len(key) :
          /\ i < j
          /\ key[i] = ":"
          /\ key[j] = ":"
          /\ IsPrefix(user_id, SubSeq(key, j + 1, Len(key)))

\* a _get_client that lets a failed connection out
_get_client_unguarded(c, up) ==
    IF ~c._enabled THEN [client |-> None, cache |-> c, raised |-> FALSE]
    ELSE IF c._client # None
    THEN [client |-> c._client, cache |-> c, raised |-> FALSE]
    ELSE IF up
    THEN [client |-> "redis", cache |-> [c EXCEPT !._client = "redis"],
          raised |-> FALSE]
    ELSE [client |-> None, cache |-> c, raised |-> TRUE]

\* PredictionCache._get_client on the cache object c while the server
\* answers (up) or not: the client handed back and the object afterwards
_get_client(c, up) ==
    IF ~c._enabled THEN [client |-> None, cache |-> c, raised |-> FALSE]
    ELSE IF c._client # None
    THEN [client |-> c._client, cache |-> c, raised |-> FALSE]
    ELSE IF up
    THEN [client |-> "redis", cache |-> [c EXCEPT !._client = "redis"],
          raised |-> FALSE]
    ELSE [client |-> None,
          cache |-> [_client |-> None, _enabled |-> FALSE],
          raised |-> FALSE]

\* PredictionCache.get: the value found ("hit"), or None
get_returns(key, g) ==
    IF g.client = None THEN None
    ELSE IF ~backend_up THEN None
    ELSE IF key \in cache THEN "hit" ELSE None

\* PredictionCache.set: the keys in Redis afterwards
set_leaves(key, g) ==
    IF g.client = None \/ ~backend_up THEN cache ELSE cache \cup {key}

\* what a cache call records: the call, its key, what it returned, whether
\* it raised, and the keys and the server's state it found
CacheResponse(kind, key, returned, g, before) ==
    [ kind |-> kind, key |-> key, returned |-> returned,
      raised |-> g.raised, used_backend |-> g.client # None /\ backend_up,
      backend_up |-> backend_up, before |-> before ]

cacheFrame == <<decisions, rewards, rlSessions, now, bandit, loopTask, task,
                artifact, ppo_agent, estVars, clStore, clHist>>

\* prediction_cache.get(service, endpoint, user_id, extra)
get(service, endpoint, user_id, extra) ==
    LET g   == _get_client(prediction_cache, backend_up)
        key == _key(service, endpoint, user_id, extra)
    IN  /\ prediction_cache' = g.cache
        /\ lastResponse' = CacheResponse("get", key, get_returns(key, g), g,
                                         cache)
        /\ UNCHANGED <<cache, backend_up, predictor, tables, cacheFrame>>

\* prediction_cache.set(service, endpoint, user_id, value, extra)
set(service, endpoint, user_id, extra) ==
    LET g   == _get_client(prediction_cache, backend_up)
        key == _key(service, endpoint, user_id, extra)
    IN  /\ prediction_cache' = g.cache
        /\ cache' = IF g.raised THEN cache ELSE set_leaves(key, g)
        /\ lastResponse' = CacheResponse("set", key, None, g, cache)
        /\ UNCHANGED <<backend_up, predictor, tables, cacheFrame>>

\* prediction_cache.invalidate(service, endpoint, user_id, extra)
invalidate(service, endpoint, user_id, extra) ==
    LET g   == _get_client(prediction_cache, backend_up)
        key == _key(service, endpoint, user_id, extra)
    IN  /\ prediction_cache' = g.cache
        /\ cache' = IF g.client = None \/ ~backend_up THEN cache
                    ELSE cache \ {key}
        /\ lastResponse' = CacheResponse("invalidate", key, None, g, cache)
        /\ UNCHANGED <<backend_up, predictor, tables, cacheFrame>>

\* the keys the scan loop of invalidate_user finds
scanned(user_id, g) ==
    IF g.client = None \/ ~backend_up THEN {}
    ELSE {k \in cache : scan_matches(user_id, k)}

\* the sets of keys invalidate_user may have deleted when it returns: all
\* that the scan finds, or, when a scan or delete call raises on the way
\* (breaks), those of the batches before
deleted_keys(user_id, g, breaks) ==
    IF breaks THEN SUBSET scanned(user_id, g) ELSE {scanned(user_id, g)}

\* prediction_cache.invalidate_user(user_id): returns the number deleted
invalidate_user(user_id, breaks, gone) ==
    LET g == _get_client(prediction_cache, backend_up)
    IN  /\ gone \in deleted_keys(user_id, g, breaks)
        /\ prediction_cache' = g.cache
        /\ cache' = cache \ gone
        /\ lastResponse' =
               [ kind |-> "invalidate_user", user_id |-> user_id,
                 returned |-> Cardinality(gone), raised |-> g.raised,
                 used_backend |-> g.client # None /\ backend_up,
                 backend_up |-> backend_up, breaks |-> breaks,
                 before |-> cache ]
        /\ UNCHANGED <<backend_up, predictor, tables, cacheFrame>>

\* Redis drops a key whose TTL has run out
expire(key) ==
    /\ key \in cache
    /\ cache' = cache \ {key}
    /\ lastResponse' = NoResponse
    /\ UNCHANGED <<prediction_cache, backend_up, predictor, tables,
                   cacheFrame>>

\* the Redis server stops answering / answers again
backend_fails ==
    /\ backend_up
    /\ backend_up' = FALSE
    /\ lastResponse' = NoResponse
    /\ UNCHANGED <<cache, prediction_cache, predictor, tables, cacheFrame>>

backend_returns ==
    /\ ~backend_up
    /\ backend_up' = TRUE
    /\ lastResponse' = NoResponse
    /\ UNCHANGED <<cache, prediction_cache, predictor, tables, cacheFrame>>

min_events_for_dkt == 50

EventCounts == {0, 49, 50}

\* POST /ml/dkt/knowledge-state for user_id, who has event_count events,
\* while the checkpoint file exists or not
knowledge_state(user_id, ckpt_exists, event_count) ==
    LET key    == _key("dkt", "knowledge-state", user_id, <<>>)
        g1     == _get_client(prediction_cache, backend_up)
        cached == ~g1.raised /\ get_returns(key, g1) = "hit"
        \* predictor.get_knowledge_state: _ensure_loaded comes first
        load_fails == predictor._model = None /\ ~ckpt_exists
        computes   == ~g1.raised /\ ~cached /\ ~load_fails
        using_dkt  == event_count >= min_events_for_dkt
        g2     == _get_client(g1.cache, backend_up)
        status == IF g1.raised THEN 500
                  ELSE IF cached THEN 200
                  ELSE IF load_fails THEN 503
                  ELSE IF g2.raised THEN 500 ELSE 200
    IN  /\ prediction_cache' = IF computes THEN g2.cache ELSE g1.cache
        /\ predictor' = IF computes THEN [_model |-> "TransformerDKT"]
                        ELSE predictor
        /\ cache' = IF computes /\ ~g2.raised THEN set_leaves(key, g2)
                    ELSE cache
        /\ tables' = IF computes /\ ~g2.raised
                     THEN tables \cup {[table |-> "ml_prediction_log",
                                        user_id |-> user_id]}
                     ELSE tables
        /\ lastResponse' =
               [ kind |-> "knowledge_state", user_id |-> user_id,
                 status |-> status, cached |-> cached,
                 usingDkt |-> computes /\ using_dkt,
                 wordStates |-> IF computes /\ using_dkt
                                THEN <<"word">> ELSE <<>>,
                 eventCount |-> event_count, ckpt_exists |-> ckpt_exists,
                 backend_up |-> backend_up, before |-> cache ]
        /\ UNCHANGED <<backend_up, cacheFrame>>

\* the cache key of an assign-cluster request without user_id:
\* cefr_level ":" goals
AnonymousKey == <<"A1", ":", "travel">>

\* POST /ml/cold-start/assign-cluster; user_id is <<>> when the request
\* carries none
assign_cluster(user_id) ==
    LET ck     == IF user_id # <<>> THEN user_id ELSE AnonymousKey
        key    == _key("cold_start", "assign-cluster", ck, <<>>)
        g1     == _get_client(prediction_cache, backend_up)
        cached == get_returns(key, g1) = "hit"
        g2     == _get_client(g1.cache, backend_up)
    IN  /\ prediction_cache' = IF cached THEN g1.cache ELSE g2.cache
        /\ cache' = IF cached THEN cache ELSE set_leaves(key, g2)
        /\ tables' =
               IF cached \/ user_id = <<>> THEN tables
               ELSE tables \cup
                        {[table |-> "cold_start_assignments",
                          user_id |-> user_id],
                         [table |-> "ml_prediction_log",
                          user_id |-> user_id]}
        /\ lastResponse' =
               [ kind |-> "assign_cluster", user_id |-> user_id,
                 status |-> 200, cached |-> cached,
                 backend_up |-> backend_up, before |-> cache ]
        /\ UNCHANGED <<backend_up, predictor, cacheFrame>>

\* the calls the services make on the cache besides those above
CacheCalls ==
    { [service |-> "churn", endpoint |-> "pre-session-risk",
       user_id |-> u, extra |-> <<>>] : u \in {U1, U10} }
        \cup { [service |-> "feedback", endpoint |-> "explain",
                user_id |-> U1, extra |-> <<"w">>] }

InitCache == InitThreads

NextCache ==
    \/ \E c \in CacheCalls : get(c.service, c.endpoint, c.user_id, c.extra)
    \/ \E c \in CacheCalls : set(c.service, c.endpoint, c.user_id, c.extra)
    \/ \E c \in CacheCalls :
           invalidate(c.service, c.endpoint, c.user_id, c.extra)
    \/ \E u \in KeyUsers, breaks \in BOOLEAN, gone \in SUBSET cache :
           invalidate_user(u, breaks, gone)
    \/ \E k \in cache : expire(k)
    \/ backend_fails
    \/ backend_returns
    \/ \E u \in {U1, U2}, ckpt_exists \in BOOLEAN, n \in EventCounts :
           knowledge_state(u, ckpt_exists, n)
    \/ \E u \in {<<>>, U1} : assign_cluster(u)

SpecCache == InitCache /\ [][NextCache]_vars

CacheKinds == {"get", "set", "invalidate", "invalidate_user"}

\* C26: invalidate_user(u), when it ran to its end on a reachable backend,
\* has deleted every key whose user segment is u and has left the keys of
\* every other user, also of one whose id starts with u
C26_InvalidateUserFrame ==
    (/\ lastResponse.kind = "invalidate_user"
     /\ lastResponse.used_backend
     /\ ~lastResponse.breaks) =>
        \A k \in lastResponse.before :
            IF user_segment(k) = lastResponse.user_id
            THEN k \notin cache
            ELSE k \in cache

\* C27: no cache call raises; one that cannot use the backend returns a miss
\* (get), leaves the keys alone (set, invalidate) or returns a count
\* (invalidate_user), and a knowledge-state request made while the backend
\* is down is answered as the predictor decides, uncached
C27_CacheFailsSoft ==
    /\ lastResponse.kind \in CacheKinds =>
          /\ ~lastResponse.raised
          /\ ~lastResponse.used_backend =>
                /\ lastResponse.kind = "get" => lastResponse.returned = None
                /\ lastResponse.kind \in {"set", "invalidate"} =>
                       cache = lastResponse.before
                /\ lastResponse.kind = "invalidate_user" =>
                       /\ lastResponse.returned = 0
                       /\ cache = lastResponse.before
    /\ (lastResponse.kind = "knowledge_state" /\ ~lastResponse.backend_up) =>
          /\ ~lastResponse.cached
          /\ lastResponse.status \in {200, 503}
          /\ lastResponse.status = 503 => ~lastResponse.ckpt_exists
          /\ cache = lastResponse.before

\* C27 witness: a get for a stored key, made while the backend is down,
\* returned a miss
C27_Witness ==
    /\ lastResponse.kind = "get"
    /\ ~lastResponse.backend_up
    /\ lastResponse.key \in cache
    /\ lastResponse.returned = None

\* C28: a knowledge-state request that is computed for a user with fewer
\* than 50 events is answered 200 with the fallback flag and no word states,
\* whether or not a checkpoint exists
C28_FallbackBelowMinimum ==
    (/\ lastResponse.kind = "knowledge_state"
     /\ lastResponse.eventCount < 50
     /\ ~lastResponse.cached) =>
        /\ lastResponse.status = 200
        /\ ~lastResponse.usingDkt
        /\ lastResponse.wordStates = <<>>

\* the requests of one user that keep coming while the backend comes and goes
NextCacheLive ==
    \/ get("churn", "pre-session-risk", U1, <<>>)
    \/ set("churn", "pre-session-risk", U1, <<>>)
    \/ \E u \in {U1, U2}, n \in EventCounts : knowledge_state(u, TRUE, n)
    \/ backend_fails
    \/ backend_returns

\* requests keep arriving: a set and a get that can be made are made
SpecCacheLive ==
    /\ InitCache
    /\ [][NextCacheLive]_vars
    /\ WF_vars(get("churn", "pre-session-risk", U1, <<>>))
    /\ WF_vars(set("churn", "pre-session-risk", U1, <<>>))

\* C29: if the backend, after being down, stays reachable from some point
\* on, then a get returns a value that was set, again and again
C29_ReconnectsEventually ==
    (<>[]backend_up) =>
        []<>(/\ lastResponse.kind = "get"
             /\ lastResponse.returned = "hit")

-----------------------------------------------------------------------------
(* Erasure: DELETE /ml/user/{user_id} (ml.service.routes_gdpr and          *)
(* ml.shared.gdpr)                                                         *)

MaxRows == 1

\* the tables delete_user_ml_data purges, in its order
_SUPABASE_TABLES ==
    << "routing_rewards", "routing_decisions", "churn_predictions",
       "abandonment_snapshots", "rescue_interventions",
       "cluster_assignments", "cognitive_load_events",
       "cognitive_load_sessions", "ml_prediction_log" >>

Range(f) == {f[x] : x \in DOMAIN f}

\* the tables into which the services write rows that carry a user_id
WrittenTables ==
    { "ml_prediction_log", "routing_decisions", "routing_rewards",
      "churn_predictions", "session_abandonment_snapshots",
      "rescue_interventions", "cold_start_assignments",
      "user_topic_preferences" }

\* a service writes a row for user_id into one of its tables
write_row(table, user_id) ==
    /\ Cardinality(tables) < MaxRows
    /\ tables' = tables \cup {[table |-> table, user_id |-> user_id]}
    /\ lastResponse' = NoResponse
    /\ UNCHANGED <<cache, prediction_cache, backend_up, predictor,
                   cacheFrame>>

\* the rows left after .delete().eq("user_id", user_id) on each of ts
delete_rows(rows, ts, user_id) ==
    {r \in rows : ~(r.table \in ts /\ r.user_id = user_id)}

\* a purge loop that stops at the first table whose delete raises
tables_attempted_until_error(failing) ==
    LET bad == {i \in DOMAIN _SUPABASE_TABLES : _SUPABASE_TABLES[i] \in failing}
    IN  IF bad = {} THEN _SUPABASE_TABLES
        ELSE SubSeq(_SUPABASE_TABLES, 1,
                    CHOOSE i \in bad : \A j \in bad : i <= j)

\* the tables the purge loop of delete_user_ml_data gets to when the deletes
\* on the tables in failing raise
tables_attempted(failing) == _SUPABASE_TABLES

\* what the store does to one erasure: the client can be made ("ok"), the
\* URL or key is not set ("unconfigured"), or create_client raises
ClientOutcomes == {"ok", "unconfigured", "raises"}

\* the sets of tables whose delete raises during one erasure
FailingTables ==
    {{}} \cup {{t} : t \in Range(_SUPABASE_TABLES)}
         \cup {{"routing_rewards", "cluster_assignments"}}

\* DELETE /ml/user/{user_id}: delete_user around delete_user_ml_data
delete_user(user_id, client, log_ok, failing, breaks, gone) ==
    LET \* step 1: prediction_cache.invalidate_user
        g == _get_client(prediction_cache, backend_up)
        cache_failed == g.client = None \/ ~backend_up \/ breaks
        \* step 2: delete_user_logs returns 0 unconfigured, -1 on an error
        log_deleted == client = "ok" /\ log_ok
        log_failed  == client = "raises" \/ (client = "ok" /\ ~log_ok)
        \* step 3: the purge loop
        attempted == IF client = "ok" THEN tables_attempted(failing)
                     ELSE <<>>
        purged    == Range(attempted) \ failing
        errors    == (IF client = "unconfigured" THEN {"client"} ELSE {})
                        \cup (Range(attempted) \cap failing)
        \* the summary has "success" only after the loop; without it
        \* DeleteUserResponse(**result) raises, as create_client may
        has_success == client = "ok"
    IN  /\ gone \in deleted_keys(user_id, g, breaks)
        /\ prediction_cache' = g.cache
        /\ cache' = cache \ gone
        /\ tables' = delete_rows(
                         delete_rows(tables,
                                     IF log_deleted
                                     THEN {"ml_prediction_log"} ELSE {},
                                     user_id),
                         purged, user_id)
        /\ lastResponse' =
               [ kind |-> "delete_user", user_id |-> user_id,
                 status |-> IF has_success THEN 200 ELSE 500,
                 has_success |-> has_success,
                 success |-> has_success /\ errors = {},
                 errors |-> errors,
                 attempted |-> attempted,
                 cache_keys_deleted |-> Cardinality(gone),
                 failed_steps |->
                     (IF cache_failed THEN {"cache"} ELSE {})
                         \cup (IF log_failed THEN {"prediction_log"} ELSE {})
                         \cup (IF client # "ok" THEN {"client"} ELSE {})
                         \cup (Range(attempted) \cap failing),
                 client |-> client, failing |-> failing,
                 rows_before |-> tables ]
        /\ UNCHANGED <<backend_up, predictor, cacheFrame>>

InitErase == InitThreads

NextErase ==
    \/ \E t \in WrittenTables, u \in {U1, U2} : write_row(t, u)
    \/ \E u \in {U1, U10} : set("dkt", "knowledge-state", u, <<>>)
    \/ backend_fails
    \/ backend_returns
    \/ \E client \in ClientOutcomes, log_ok \in BOOLEAN,
          failing \in FailingTables, breaks \in BOOLEAN,
          gone \in SUBSET cache :
           delete_user(U1, client, log_ok, failing, breaks, gone)

SpecErase == InitErase /\ [][NextErase]_vars

\* C23: after delete_user(u) has returned a summary without errors, no
\* cache key matches the pattern of u and no table the services write has a
\* row of u
C23_NothingLeft ==
    (/\ lastResponse.kind = "delete_user"
     /\ lastResponse.status = 200
     /\ lastResponse.errors = {}) =>
        /\ \A k \in cache : ~scan_matches(lastResponse.user_id, k)
        /\ \A r \in tables :
               r.table \in WrittenTables => r.user_id # lastResponse.user_id

\* C24: every delete_user call returns a summary with success, success is
\* true exactly when errors is empty, and every step that failed has an
\* entry in errors
C24_SummaryTellsFailures ==
    lastResponse.kind = "delete_user" =>
        /\ lastResponse.status = 200
        /\ lastResponse.has_success
        /\ lastResponse.success <=> lastResponse.errors = {}
        /\ lastResponse.failed_steps \subseteq lastResponse.errors

\* C25: a table delete that raises does not end delete_user: every table of
\* the list is attempted, each error is recorded, and the rows of the user
\* in the tables whose delete did not raise are gone
C25_ContinuesAfterTableError ==
    (lastResponse.kind = "delete_user" /\ lastResponse.client = "ok") =>
        /\ lastResponse.attempted = _SUPABASE_TABLES
        /\ lastResponse.failing \subseteq lastResponse.errors
        /\ \A r \in tables :
               (/\ r.table \in Range(_SUPABASE_TABLES)
                /\ r.table \notin lastResponse.failing) =>
                   r.user_id # lastResponse.user_id

\* C25 witness: the delete on the first table raised and a row of the user
\* in a later table was deleted all the same
C25_Witness ==
    /\ lastResponse.kind = "delete_user"
    /\ lastResponse.client = "ok"
    /\ lastResponse.failing = {"routing_rewards"}
    /\ [table |-> "routing_decisions", user_id |-> U1]
           \in lastResponse.rows_before
    /\ [table |-> "routing_decisions", user_id |-> U1] \notin tables

=============================================================================
